---- MODULE Spec2Model ----
(***************************************************************************)
(* A model of the RSR compliance verifiers of hyperpolymath/aletheia:      *)
(* rhodibot's library and command line (extraction/rhodibot/src/lib.rs,    *)
(* main.rs) and the aletheia binary (src/main.rs).  The filesystem is a    *)
(* tree of nodes addressed by canonical absolute paths; the system calls   *)
(* the code makes (lstat, readlink, realpath, stat) are computed by        *)
(* walking that tree, and the path operations of std::path (join, parent,  *)
(* components, starts_with) are computed on sequences of path segments.    *)
(***************************************************************************)
EXTENDS Naturals, Sequences, FiniteSets, TLC

VARIABLES fs, impl, repo_path, pc, report, args, options, exit_code, stdout

vars == <<fs, impl, repo_path, pc, report, args, options, exit_code, stdout>>

(***************************************************************************)
(* Bounds of the model.                                                    *)
(***************************************************************************)
\* Candidate entries of a generated repository that differ from its base.
MaxVaried == 1
\* Checks and warnings of a report built through ComplianceReport's methods.
MaxChecks == 3
MaxWarnings == 2
\* Arguments on a command line, the program's name not counted.
MaxArgs == 3

(***************************************************************************)
(* Paths.  A path is a sequence of segments; an absolute path starts with  *)
(* the segment "/".                                                        *)
(***************************************************************************)
is_absolute(p) == p # <<>> /\ p[1] = "/"

\* Path::join: an absolute argument replaces the base.
join(base, p) == IF is_absolute(p) THEN p ELSE base \o p

\* Then(v, K) is K(v), with v evaluated once.
Then(v, K(_)) == CHOOSE out \in {K(x) : x \in {v}} : TRUE

None == [some |-> FALSE, v |-> <<>>]
Some(v) == [some |-> TRUE, v |-> v]

\* Path::components: "." segments are dropped except a leading one; ".."
\* segments are kept.
RECURSIVE DropCurDir(_)
DropCurDir(p) ==
    IF p = <<>> THEN <<>>
    ELSE IF Head(p) = "." THEN DropCurDir(Tail(p))
    ELSE <<Head(p)>> \o DropCurDir(Tail(p))

components(p) == IF p = <<>> THEN <<>> ELSE <<Head(p)>> \o DropCurDir(Tail(p))

\* Path::parent: the components without the last one; None for "/" and "".
parent(p) ==
    LET c == components(p)
    IN  IF c = <<>> \/ c = <<"/">> THEN None ELSE Some(SubSeq(c, 1, Len(c) - 1))

IsPrefix(a, b) == Len(a) <= Len(b) /\ SubSeq(b, 1, Len(a)) = a

\* Path::starts_with: a prefix test on whole segments.
starts_with(p, base) == IsPrefix(components(base), components(p))

(***************************************************************************)
(* The filesystem.  fs maps the canonical path of every existing entry to  *)
(* its node: t is "file", "dir", "link", "ioerr" (an entry whose metadata   *)
(* cannot be read) or "unlinked" (a directory that was removed while it is  *)
(* the working directory of the process: no name leads to it, "." does);    *)
(* to is a link's raw target; perm is a directory's search permission or a  *)
(* link's readability.                                                      *)
(***************************************************************************)
File == [t |-> "file", to |-> <<>>, perm |-> TRUE]
Dir == [t |-> "dir", to |-> <<>>, perm |-> TRUE]
DirNoSearch == [t |-> "dir", to |-> <<>>, perm |-> FALSE]
IoErr == [t |-> "ioerr", to |-> <<>>, perm |-> TRUE]
Link(to) == [t |-> "link", to |-> to, perm |-> TRUE]
BadLink == [t |-> "link", to |-> <<>>, perm |-> FALSE]
Absent == [t |-> "absent", to |-> <<>>, perm |-> TRUE]
Unlinked == [t |-> "unlinked", to |-> <<>>, perm |-> TRUE]

RootDir == <<"/">>
\* The process's working directory, and the canonical path of the repository.
Cwd == <<"/", "repo">>
Repo == <<"/", "repo">>

Err == [err |-> TRUE, p |-> <<>>]
Ok(p) == [err |-> FALSE, p |-> p]

\* Symbolic links followed in one path resolution, by the kernel and by
\* realpath alike, before it fails with ELOOP (Linux: 40).
MAXSYMLINKS == 40

CanonParent(cur) == IF Len(cur) <= 1 THEN cur ELSE SubSeq(cur, 1, Len(cur) - 1)

\* A path resolution under way: cur is the canonical path of the entry
\* reached so far, rest the segments still to look up, links the number of
\* symbolic links followed.
Resolving(cur, rest, links) == [err |-> FALSE, cur |-> cur, rest |-> rest, links |-> links]
Failed == [err |-> TRUE, cur |-> <<>>, rest |-> <<>>, links |-> 0]

\* The kernel looks up the next segment of a path.
walk_component(f, s, followLast) ==
    LET cur == s.cur
        c == Head(s.rest)
        tl == Tail(s.rest)
        child == Append(cur, c)
    IN  IF f[cur].t \notin {"dir", "unlinked"} THEN Failed    \* ENOTDIR
        ELSE IF ~f[cur].perm THEN Failed                       \* EACCES
        ELSE IF c = "." THEN Resolving(cur, tl, s.links)
        ELSE IF c = ".." THEN Resolving(CanonParent(cur), tl, s.links)
        ELSE IF child \notin DOMAIN f \/ f[child].t = "unlinked" THEN Failed   \* ENOENT
        ELSE IF f[child].t = "ioerr" THEN Failed               \* EIO
        ELSE IF f[child].t = "link" /\ (tl # <<>> \/ followLast) THEN
            IF s.links >= MAXSYMLINKS \/ ~f[child].perm THEN Failed   \* ELOOP, EIO
            ELSE IF is_absolute(f[child].to)
                 THEN Resolving(RootDir, Tail(f[child].to) \o tl, s.links + 1)
                 ELSE Resolving(cur, f[child].to \o tl, s.links + 1)
        ELSE Resolving(child, tl, s.links)

\* Nothing is left to look up, or the lookup failed.
Settled(s) == s.err \/ s.rest = <<>>

\* The kernel looks up the next n segments at most, one after the other.
\* (Halving n keeps the evaluation from nesting once per segment.)
RECURSIVE WalkSteps(_, _, _, _)
WalkSteps(f, s, followLast, n) ==
    IF Settled(s) THEN s
    ELSE IF n = 1 THEN walk_component(f, s, followLast)
    ELSE Then(WalkSteps(f, s, followLast, n \div 2),
              LAMBDA m : WalkSteps(f, m, followLast, n - n \div 2))

\* Path resolution as the kernel does it, segment by segment to the end.
RECURSIVE WalkFrom(_, _, _, _)
WalkFrom(f, s, followLast, n) ==
    Then(WalkSteps(f, s, followLast, n),
         LAMBDA m : IF m.err THEN Err
                    ELSE IF m.rest = <<>> THEN Ok(m.cur)
                    ELSE WalkFrom(f, m, followLast, 2 * n))

Walk(f, cur, rest, hops, followLast) ==
    WalkFrom(f, Resolving(cur, rest, hops), followLast, 1)

Resolve(f, p, followLast) ==
    IF p = <<>> THEN Err
    ELSE IF is_absolute(p) THEN Walk(f, RootDir, Tail(p), 0, followLast)
    ELSE Walk(f, Cwd, p, 0, followLast)

\* fs::symlink_metadata (lstat): the final segment is not followed.
symlink_metadata(f, p) ==
    LET r == Resolve(f, p, FALSE)
    IN  IF r.err THEN [ok |-> FALSE, is_symlink |-> FALSE]
        ELSE [ok |-> TRUE, is_symlink |-> f[r.p].t = "link"]

\* fs::read_link: the raw target of the link.
read_link(f, p) ==
    LET r == Resolve(f, p, FALSE)
    IN  IF r.err \/ f[r.p].t # "link" \/ ~f[r.p].perm THEN Err ELSE Ok(f[r.p].to)

\* realpath as the C library does it: cur is the name resolved so far, made
\* of entries that are no links.  "." is skipped and ".." drops the last
\* segment of cur, both without a system call; any other segment is added
\* to cur and read with readlink, which the kernel resolves: a link is
\* replaced by its target, an entry that is no link stays, and it must be a
\* directory when the rest of the name asks for one; every other failure of
\* readlink is the failure of realpath.

\* The rest of the name asks for a directory: it is made of "." segments to
\* its end, or a ".." segment comes after "." segments or none.
suffix_requires_dir_check(end) ==
    \E k \in 0..Len(end) :
        /\ \A i \in 1..k : end[i] = "."
        /\ \/ k = Len(end) /\ k > 0
           \/ k < Len(end) /\ end[k + 1] = ".."

realpath_component(f, s) ==
    LET cur == s.cur
        c == Head(s.rest)
        tl == Tail(s.rest)
        child == Append(cur, c)
    IN  IF c = "." THEN Resolving(cur, tl, s.links)
        ELSE IF c = ".." THEN Resolving(CanonParent(cur), tl, s.links)
        ELSE IF Walk(f, RootDir, Tail(child), 0, FALSE).err THEN Failed
        ELSE IF f[child].t = "link" THEN
            IF ~f[child].perm \/ s.links >= MAXSYMLINKS THEN Failed   \* EIO, ELOOP
            ELSE IF is_absolute(f[child].to)
                 THEN Resolving(RootDir, Tail(f[child].to) \o tl, s.links + 1)
                 ELSE Resolving(cur, f[child].to \o tl, s.links + 1)
        ELSE IF suffix_requires_dir_check(tl) /\ f[child].t # "dir"
             THEN Failed                                              \* ENOTDIR
        ELSE Resolving(child, tl, s.links)

RECURSIVE realpath_steps(_, _, _)
realpath_steps(f, s, n) ==
    IF Settled(s) THEN s
    ELSE IF n = 1 THEN realpath_component(f, s)
    ELSE Then(realpath_steps(f, s, n \div 2),
              LAMBDA m : realpath_steps(f, m, n - n \div 2))

RECURSIVE realpath_from(_, _, _)
realpath_from(f, s, n) ==
    Then(realpath_steps(f, s, n),
         LAMBDA m : IF m.err THEN Err
                    ELSE IF m.rest = <<>> THEN Ok(m.cur)
                    ELSE realpath_from(f, m, 2 * n))

realpath(f, s) == realpath_from(f, s, 1)

\* Path::canonicalize (realpath): every segment exists, every link followed.
\* A relative path is resolved from the name of the working directory, which
\* cannot be told when that directory was removed (getcwd fails).
canonicalize(f, p) ==
    IF p = <<>> THEN Err
    ELSE IF is_absolute(p) THEN realpath(f, Resolving(RootDir, Tail(p), 0))
    ELSE IF f[Cwd].t = "unlinked" THEN Err
    ELSE realpath(f, Resolving(Cwd, p, 0))

\* Path::exists: stat, following links, succeeds.
path_exists(f, p) == ~Resolve(f, p, TRUE).err

\* Path::is_file, Path::is_dir: stat, following links; an error is false.
is_file(f, p) == LET r == Resolve(f, p, TRUE) IN ~r.err /\ f[r.p].t = "file"
is_dir(f, p) == LET r == Resolve(f, p, TRUE) IN ~r.err /\ f[r.p].t \in {"dir", "unlinked"}

(***************************************************************************)
(* ComplianceReport.  probes is the log of the calls of check_file and     *)
(* check_dir, in call order: the path inspected and the outcome returned;   *)
(* stats is the log of the paths an engine tests with Path::is_file or      *)
(* Path::is_dir outside check_file and check_dir.                           *)
(***************************************************************************)
new_report(path) ==
    [checks |-> <<>>, warnings |-> <<>>, repository_path |-> path, probes |-> <<>>,
     stats |-> <<>>]

add_check(rep, category, item, passed, level) ==
    [rep EXCEPT !.checks = Append(@,
        [category |-> category, item |-> item, passed |-> passed, required_for |-> level])]

add_warning(rep, level, message, path) ==
    [rep EXCEPT !.warnings = Append(@, [level |-> level, message |-> message, path |-> path])]

bronze_compliance_some(rep) ==
    \* mutant: one passed Bronze check is enough
    \E i \in 1..Len(rep.checks) :
        rep.checks[i].required_for = "Bronze" /\ rep.checks[i].passed

bronze_compliance_every_check(rep) ==
    \* mutant: the checks of every tier count
    \A i \in 1..Len(rep.checks) : rep.checks[i].passed

bronze_compliance(rep) ==
    \A i \in 1..Len(rep.checks) :
        rep.checks[i].required_for = "Bronze" => rep.checks[i].passed

passed_count(rep) == Cardinality({i \in 1..Len(rep.checks) : rep.checks[i].passed})

total_count(rep) == Len(rep.checks)

has_critical_warnings(rep) ==
    \E i \in 1..Len(rep.warnings) : rep.warnings[i].level = "Critical"

silver_compliance(rep) ==
    /\ bronze_compliance(rep)
    /\ \A i \in 1..Len(rep.checks) :
          rep.checks[i].required_for = "Silver" => rep.checks[i].passed

highest_level(rep) ==
    IF ~bronze_compliance(rep) \/ has_critical_warnings(rep) THEN None
    ELSE IF silver_compliance(rep) THEN Some("Silver")
    ELSE Some("Bronze")

\* An f64 that came from a division of two counts: the exact quotient
\* num / den, or NaN (0.0 / 0.0), or an infinity (n / 0.0).
F64(num, den) == [kind |-> "finite", num |-> num, den |-> den]
NaN == [kind |-> "nan", num |-> 0, den |-> 0]
Infinity == [kind |-> "inf", num |-> 0, den |-> 0]

\* (a as f64 / b as f64) * 100.0
f64_percent(a, b) ==
    IF b = 0 THEN (IF a = 0 THEN NaN ELSE Infinity) ELSE F64(a * 100, b)

percentage_unguarded(rep) ==
    \* mutant: the division is made whatever the total is
    f64_percent(passed_count(rep), total_count(rep))

percentage(rep) ==
    IF total_count(rep) = 0 THEN F64(0, 1)
    ELSE f64_percent(passed_count(rep), total_count(rep))

(***************************************************************************)
(* The path-security checker.                                              *)
(***************************************************************************)
PathCheckResult(exists, is_symlink, escapes_repo, target) ==
    [exists |-> exists, is_symlink |-> is_symlink, escapes_repo |-> escapes_repo,
     target |-> target]

\* The raw target made a path: as it is when absolute, else joined to the
\* parent of the link's path.
resolved_target(path, target) ==
    IF is_absolute(target) THEN target
    ELSE IF parent(path).some THEN join(parent(path).v, target)
    ELSE target

\* p.canonicalize().unwrap_or_else(|_| p): the path itself when it cannot be
\* canonicalized.
canonicalize_or_self(f, p) ==
    LET c == canonicalize(f, p) IN IF c.err THEN p ELSE c.p

escapes_repo_raw_target(f, target, repo_root) ==
    \* mutant: the target is compared as written, ".." segments and all
    ~starts_with(target, canonicalize_or_self(f, repo_root))

escapes_repo_raw_root(f, target, repo_root) ==
    \* mutant: the root is compared as given, not canonicalized
    ~starts_with(canonicalize_or_self(f, target), repo_root)

escapes_repo(f, target, repo_root) ==
    LET canonical_root == canonicalize_or_self(f, repo_root)
        canonical_target == canonicalize_or_self(f, target)
    IN  ~starts_with(canonical_target, canonical_root)

\* The system calls of one probe of a path, in the order they are made, do
\* not read one tree when another process changes it meanwhile: c gives the
\* tree each call reads.  Steady(f) is a tree nobody changes.
Steady(f) == [lstat |-> f, read_link |-> f, canonicalize |-> f, type_test |-> f]

check_path_security_err_exists(c, path, repo_root) ==
    \* mutant: a failed lstat is reported as an existing entry
    LET metadata == symlink_metadata(c.lstat, path)
        target == read_link(c.read_link, path)
    IN  IF ~metadata.ok THEN PathCheckResult(TRUE, FALSE, FALSE, None)
        ELSE IF ~metadata.is_symlink THEN PathCheckResult(TRUE, FALSE, FALSE, None)
        ELSE IF target.err THEN PathCheckResult(TRUE, TRUE, FALSE, None)
        ELSE PathCheckResult(TRUE, TRUE,
                 escapes_repo(c.canonicalize, resolved_target(path, target.p), repo_root),
                 Some(resolved_target(path, target.p)))

check_path_security(c, path, repo_root) ==
    LET metadata == symlink_metadata(c.lstat, path)
        target == read_link(c.read_link, path)
    IN  IF ~metadata.ok THEN PathCheckResult(FALSE, FALSE, FALSE, None)
        ELSE IF ~metadata.is_symlink THEN PathCheckResult(TRUE, FALSE, FALSE, None)
        ELSE IF target.err THEN PathCheckResult(TRUE, TRUE, FALSE, None)
        ELSE PathCheckResult(TRUE, TRUE,
                 escapes_repo(c.canonicalize, resolved_target(path, target.p), repo_root),
                 Some(resolved_target(path, target.p)))

warn_escaping_only(rep, security, name, path) ==
    \* mutant: a link that stays within the repository is not reported
    IF security.is_symlink /\ security.escapes_repo
    THEN add_warning(rep, "Critical",
             [text |-> "Symlink '{}' points outside repository to '{}'", name |-> name,
              target |-> security.target.v], Some(path))
    ELSE rep

\* The warning check_file pushes for an inspected path.
warn(rep, security, name, path) ==
    IF security.is_symlink THEN
        IF security.escapes_repo
        THEN add_warning(rep, "Critical",
                 [text |-> "Symlink '{}' points outside repository to '{}'", name |-> name,
                  target |-> security.target.v], Some(path))
        ELSE add_warning(rep, "Info",
                 [text |-> "'{}' is a symlink (within repository bounds)", name |-> name,
                  target |-> <<>>], Some(path))
    ELSE rep

\* The warning check_dir pushes for an inspected path.
warn_dir(rep, security, name, path) ==
    IF security.is_symlink THEN
        IF security.escapes_repo
        THEN add_warning(rep, "Critical",
                 [text |-> "Symlink directory '{}' points outside repository to '{}'",
                  name |-> name, target |-> security.target.v], Some(path))
        ELSE add_warning(rep, "Info",
                 [text |-> "'{}' is a symlink directory (within repository bounds)",
                  name |-> name, target |-> <<>>], Some(path))
    ELSE rep

probed(rep, path, ok) == [rep EXCEPT !.probes = Append(@, [path |-> path, ok |-> ok])]

\* A run of the engine beside another process that makes one change: t is the
\* tree before and after it, the probed path during whose probe it is made
\* (after the lstat of that path), and the first system call of that probe
\* that reads the changed tree.  Unchanged(f) is a run with no change.
Unchanged(f) == [before |-> f, after |-> f, path |-> <<>>, at |-> "type_test"]

\* The trees the calls of the probe of a path read: a probe made before the
\* one of t.path reads the tree before the change, a probe made after it the
\* tree after the change.
seen(t, rep, path) ==
    IF path = t.path
    THEN [lstat |-> t.before,
          read_link |-> IF t.at = "read_link" THEN t.after ELSE t.before,
          canonicalize |-> IF t.at \in {"read_link", "canonicalize"} THEN t.after
                           ELSE t.before,
          type_test |-> t.after]
    ELSE IF \E i \in 1..Len(rep.probes) : rep.probes[i].path = t.path
    THEN Steady(t.after)
    ELSE Steady(t.before)

\* check_file and check_dir return their outcome and the report they changed.
check_file_fails_escape(t, base, filename, rep) ==
    \* mutant: an escaping link fails the check
    LET path == join(base, <<filename>>)
        result(security) ==
            LET ok == security.exists /\ ~security.escapes_repo /\ is_file(seen(t, rep, path).type_test, path)
            IN  [ok |-> ok, rep |-> warn(probed(rep, path, ok), security, filename, path)]
    IN  Then(check_path_security(seen(t, rep, path), path, rep.repository_path), result)

check_file_exists_only(t, base, filename, rep) ==
    \* mutant: the outcome is the existence of the entry, whatever it leads to
    LET path == join(base, <<filename>>)
        result(security) ==
            LET ok == security.exists
            IN  [ok |-> ok, rep |-> warn(probed(rep, path, ok), security, filename, path)]
    IN  Then(check_path_security(seen(t, rep, path), path, rep.repository_path), result)

check_file_unless_absent(t, base, filename, rep) ==
    \* mutant: an entry that is not there is not held against the repository
    LET path == join(base, <<filename>>)
        result(security) ==
            LET ok == ~security.exists \/ is_file(seen(t, rep, path).type_test, path)
            IN  [ok |-> ok, rep |-> warn(probed(rep, path, ok), security, filename, path)]
    IN  Then(check_path_security(seen(t, rep, path), path, rep.repository_path), result)

check_file(t, base, filename, rep) ==
    LET path == join(base, <<filename>>)
        result(security) ==
            LET ok == security.exists /\ is_file(seen(t, rep, path).type_test, path)
            IN  [ok |-> ok, rep |-> warn(probed(rep, path, ok), security, filename, path)]
    IN  Then(check_path_security(seen(t, rep, path), path, rep.repository_path), result)

check_dir_as_file(t, base, dirname, rep) ==
    \* mutant: the directory check tests for a regular file
    LET path == join(base, <<dirname>>)
        result(security) ==
            LET ok == security.exists /\ is_file(seen(t, rep, path).type_test, path)
            IN  [ok |-> ok, rep |-> warn_dir(probed(rep, path, ok), security, dirname, path)]
    IN  Then(check_path_security(seen(t, rep, path), path, rep.repository_path), result)

check_dir(t, base, dirname, rep) ==
    LET path == join(base, <<dirname>>)
        result(security) ==
            LET ok == security.exists /\ is_dir(seen(t, rep, path).type_test, path)
            IN  [ok |-> ok, rep |-> warn_dir(probed(rep, path, ok), security, dirname, path)]
    IN  Then(check_path_security(seen(t, rep, path), path, rep.repository_path), result)

(***************************************************************************)
(* rhodibot's compliance engine (extraction/rhodibot/src/lib.rs).          *)
(***************************************************************************)
\* The loop "for doc in names { exists = check_file(..); add_check(..) }".
RECURSIVE check_each_file_until_failure(_, _, _, _, _)
check_each_file_until_failure(t, base, names, category, rep) ==
    \* mutant: the loop is left at the first probe that fails
    IF names = <<>> THEN rep
    ELSE LET rest(r) ==
                 IF r.ok
                 THEN check_each_file_until_failure(t, base, Tail(names), category,
                          add_check(r.rep, category, Head(names), r.ok, "Bronze"))
                 ELSE add_check(r.rep, category, Head(names), r.ok, "Bronze")
         IN  Then(check_file(t, base, Head(names), rep), rest)

RECURSIVE check_each_file(_, _, _, _, _)
check_each_file(t, base, names, category, rep) ==
    IF names = <<>> THEN rep
    ELSE LET rest(r) == check_each_file(t, base, Tail(names), category,
                            add_check(r.rep, category, Head(names), r.ok, "Bronze"))
         IN  Then(check_file(t, base, Head(names), rep), rest)

other_required_docs_sorted ==
    \* mutant: the documents in alphabetical order
    <<"CHANGELOG.md", "CODE_OF_CONDUCT.md", "CONTRIBUTING.md", "LICENSE.txt",
      "MAINTAINERS.md", "SECURITY.md">>

other_required_docs ==
    <<"LICENSE.txt", "SECURITY.md", "CONTRIBUTING.md", "CODE_OF_CONDUCT.md",
      "MAINTAINERS.md", "CHANGELOG.md">>

check_documentation_md_only(t, rep, repo) ==
    \* mutant: README.adoc is not accepted
    LET others(readme) ==
            check_each_file(t, repo, other_required_docs, "Documentation",
                add_check(readme.rep, "Documentation", "README.md", readme.ok, "Bronze"))
    IN  Then(check_file(t, repo, "README.md", rep), others)

check_documentation_both(t, rep, repo) ==
    \* mutant: README.adoc is probed whatever the probe of README.md gave
    LET others(readme) ==
            check_each_file(t, repo, other_required_docs, "Documentation",
                add_check(readme.rep, "Documentation", "README.md", readme.ok, "Bronze"))
        adoc(readme_md) ==
            LET either(readme_adoc) ==
                    others([ok |-> readme_md.ok \/ readme_adoc.ok, rep |-> readme_adoc.rep])
            IN  Then(check_file(t, repo, "README.adoc", readme_md.rep), either)
    IN  Then(check_file(t, repo, "README.md", rep), adoc)

check_documentation(t, rep, repo) ==
    LET others(readme) ==
            check_each_file(t, repo, other_required_docs, "Documentation",
                add_check(readme.rep, "Documentation", "README.md", readme.ok, "Bronze"))
        adoc(readme_md) ==
            IF ~readme_md.ok
            THEN Then(check_file(t, repo, "README.adoc", readme_md.rep), others)
            ELSE others(readme_md)
    IN  Then(check_file(t, repo, "README.md", rep), adoc)

required_files_two ==
    \* mutant: one of the three files is not listed
    <<"security.txt", "ai.txt">>

required_files == <<"security.txt", "ai.txt", "humans.txt">>

RECURSIVE check_well_known_files_always(_, _, _, _, _)
check_well_known_files_always(t, well_known_path, names, has_dir, rep) ==
    \* mutant: the files are probed whether or not the directory check passed
    IF names = <<>> THEN rep
    ELSE LET rest(r) ==
                 check_well_known_files_always(t, well_known_path, Tail(names), has_dir,
                     add_check(r.rep, "Well-Known", Head(names), has_dir /\ r.ok, "Bronze"))
         IN  Then(check_file(t, well_known_path, Head(names), rep), rest)

\* The loop of check_well_known: a file is probed only when has_dir.
RECURSIVE check_well_known_files(_, _, _, _, _)
check_well_known_files(t, well_known_path, names, has_dir, rep) ==
    IF names = <<>> THEN rep
    ELSE LET rest(r) == check_well_known_files(t, well_known_path, Tail(names), has_dir,
                            add_check(r.rep, "Well-Known", Head(names), r.ok, "Bronze"))
         IN  Then(IF has_dir THEN check_file(t, well_known_path, Head(names), rep)
                  ELSE [ok |-> FALSE, rep |-> rep], rest)

check_well_known(t, rep, repo) ==
    LET files(has_dir) ==
            check_well_known_files(t, join(repo, <<".well-known">>), required_files,
                has_dir.ok,
                add_check(has_dir.rep, "Well-Known", ".well-known/ directory", has_dir.ok,
                          "Bronze"))
    IN  Then(check_dir(t, repo, ".well-known", rep), files)

build_files == <<"justfile", "flake.nix", ".gitlab-ci.yml">>

check_build_system(t, rep, repo) ==
    check_each_file(t, repo, build_files, "Build System", rep)

check_source_structure_tests_only(t, rep, repo) ==
    \* mutant: a directory named test is not accepted
    LET add(has_src, has_tests) ==
            add_check(
                add_check(has_tests.rep, "Source Structure", "src/ directory", has_src.ok,
                          "Bronze"),
                "Source Structure", "tests/ directory", has_tests.ok, "Bronze")
        tests(has_src) ==
            LET done(has_tests) == add(has_src, has_tests)
            IN  Then(check_dir(t, repo, "tests", has_src.rep), done)
    IN  Then(check_dir(t, repo, "src", rep), tests)

check_source_structure(t, rep, repo) ==
    LET add(has_src, has_tests) ==
            add_check(
                add_check(has_tests.rep, "Source Structure", "src/ directory", has_src.ok,
                          "Bronze"),
                "Source Structure", "tests/ directory", has_tests.ok, "Bronze")
        tests(has_src) ==
            LET done(has_tests) == add(has_src, has_tests)
                test(found) == IF found.ok THEN done(found)
                               ELSE Then(check_dir(t, repo, "test", found.rep), done)
            IN  Then(check_dir(t, repo, "tests", has_src.rep), test)
    IN  Then(check_dir(t, repo, "src", rep), tests)

\* verify_repository: the four groups of checks on a new report.
verify_repository(f, repo) ==
    LET source(r) == check_source_structure(Unchanged(f), r, repo)
        build(r) == Then(check_build_system(Unchanged(f), r, repo), source)
        well_known(r) == Then(check_well_known(Unchanged(f), r, repo), build)
    IN  Then(check_documentation(Unchanged(f), new_report(repo), repo), well_known)

(***************************************************************************)
(* The aletheia binary's engine (src/main.rs).  Its check_path_security,   *)
(* check_file and check_dir are the same code as rhodibot's and are        *)
(* modelled by the operators above.                                        *)
(***************************************************************************)
\* file_exists is called by check_documentation and defined nowhere in the
\* sources: the plain existence probe of the variant without symlink security.
file_exists(f, base, name) == is_file(f, join(base, <<name>>))

statted(rep, path) == [rep EXCEPT !.stats = Append(@, path)]

RECURSIVE aletheia_each_doc(_, _, _, _)
aletheia_each_doc(f, base, names, rep) ==
    IF names = <<>> THEN rep
    ELSE aletheia_each_doc(f, base, Tail(names),
             add_check(statted(rep, join(base, <<Head(names)>>)), "Documentation",
                       Head(names), file_exists(f, base, Head(names)), "Bronze"))

\* readme_exists = file_exists("README.md") || file_exists("README.adoc"):
\* README.adoc is tested only when README.md is no file.
aletheia_check_documentation(f, rep, repo) ==
    LET md == file_exists(f, repo, "README.md")
        readme_exists == md \/ file_exists(f, repo, "README.adoc")
        tested == IF md THEN statted(rep, join(repo, <<"README.md">>))
                  ELSE statted(statted(rep, join(repo, <<"README.md">>)),
                               join(repo, <<"README.adoc">>))
    IN  aletheia_each_doc(f, repo, other_required_docs,
            add_check(tested, "Documentation", "README.md", readme_exists, "Bronze"))

RECURSIVE aletheia_well_known_files(_, _, _, _, _)
aletheia_well_known_files(f, well_known_path, names, has_dir, rep) ==
    IF names = <<>> THEN rep
    ELSE aletheia_well_known_files(f, well_known_path, Tail(names), has_dir,
             add_check(IF has_dir THEN statted(rep, join(well_known_path, <<Head(names)>>))
                       ELSE rep,
                       "Well-Known", Head(names),
                       has_dir /\ is_file(f, join(well_known_path, <<Head(names)>>)),
                       "Bronze"))

aletheia_check_well_known(f, rep, repo) ==
    LET well_known_path == join(repo, <<".well-known">>)
        has_dir == is_dir(f, well_known_path)
    IN  aletheia_well_known_files(f, well_known_path, required_files, has_dir,
            add_check(statted(rep, well_known_path), "Well-Known",
                      ".well-known/ directory", has_dir, "Bronze"))

aletheia_verify_repository(f, repo) ==
    LET source(r) == check_source_structure(Unchanged(f), r, repo)
        build(r) == Then(check_build_system(Unchanged(f), r, repo), source)
        well_known(r) == Then(aletheia_check_well_known(f, r, repo), build)
    IN  Then(aletheia_check_documentation(f, new_report(repo), repo), well_known)

(***************************************************************************)
(* The command lines.  args is argv: the program's name, then the          *)
(* arguments.  An argument is a string; the tests the code makes on its     *)
(* characters are tables over the words of the model.                       *)
(***************************************************************************)
exit_codes ==
    [SUCCESS |-> 0, COMPLIANCE_FAILED |-> 1, SECURITY_WARNING |-> 2, INVALID_PATH |-> 3,
     INVALID_ARGS |-> 4]

\* The words whose first character is '-'.
DashWords ==
    {"-h", "--help", "-V", "--version", "-q", "--quiet", "-v", "--verbose", "-f",
     "--format", "--format=human", "--format=json", "--format=yaml", "--format=",
     "--bogus", "-x", "-"}

starts_with_dash_none(arg) ==
    \* mutant: no word is taken for an option
    FALSE

\* arg.starts_with('-')
starts_with_dash(arg) == arg \in DashWords

\* arg.strip_prefix("--format=")
strip_prefix_format(arg) ==
    IF arg = "--format=human" THEN Some("human")
    ELSE IF arg = "--format=json" THEN Some("json")
    ELSE IF arg = "--format=yaml" THEN Some("yaml")
    ELSE IF arg = "--format=" THEN Some("")
    ELSE None

\* PathBuf::from: the segments of the words that hold a separator; any other
\* word is one relative segment, the empty word the empty path.
PathBuf_from(word) ==
    IF word = "" THEN <<>>
    ELSE IF word = "/repo" THEN <<"/", "repo">>
    ELSE IF word = "/lnk" THEN <<"/", "lnk">>
    ELSE IF word = "/missing" THEN <<"/", "missing">>
    ELSE IF word = "/out" THEN <<"/", "out">>
    ELSE IF word = "/out/f" THEN <<"/", "out", "f">>
    ELSE <<word>>

\* std::env::current_dir(): the working directory, an error when it was
\* removed.
current_dir(f) == IF f[Cwd].t = "unlinked" THEN Err ELSE Ok(Cwd)

DefaultOptions == [format |-> "Human", verbosity |-> "Normal", action |-> "Check"]

ParseOk(o, path) == [kind |-> "ok", options |-> o, repo_path |-> path, msg |-> ""]
ParseErr(msg) == [kind |-> "err", options |-> DefaultOptions, repo_path |-> <<>>, msg |-> msg]
ParseExit == [kind |-> "exit", options |-> DefaultOptions, repo_path |-> <<>>, msg |-> "help"]
ParseVersion ==
    [kind |-> "exit", options |-> DefaultOptions, repo_path |-> <<>>, msg |-> "version"]

\* The loop of parse_args from argument i on; path is the Option repo_path.
RECURSIVE parse_args_from(_, _, _, _, _)
parse_args_from(f, a, i, o, path) ==
    IF i > Len(a)
    THEN ParseOk(o, IF path.some THEN path.v
                    ELSE IF current_dir(f).err THEN PathBuf_from(".")
                    ELSE current_dir(f).p)
    ELSE LET arg == a[i]
         IN  IF arg \in {"-h", "--help"} THEN ParseExit
             ELSE IF arg \in {"-V", "--version"} THEN ParseVersion
             ELSE IF arg \in {"-q", "--quiet"}
             THEN parse_args_from(f, a, i + 1, [o EXCEPT !.verbosity = "Quiet"], path)
             ELSE IF arg \in {"-v", "--verbose"}
             THEN parse_args_from(f, a, i + 1, [o EXCEPT !.verbosity = "Verbose"], path)
             ELSE IF arg \in {"-f", "--format"}
             THEN IF i + 1 > Len(a) THEN ParseErr("--format requires an argument")
                  ELSE IF a[i + 1] = "human"
                  THEN parse_args_from(f, a, i + 2, [o EXCEPT !.format = "Human"], path)
                  ELSE IF a[i + 1] = "json"
                  THEN parse_args_from(f, a, i + 2, [o EXCEPT !.format = "Json"], path)
                  ELSE ParseErr("Unknown format")
             ELSE IF arg = "check"
             THEN parse_args_from(f, a, i + 1, [o EXCEPT !.action = "Check"], path)
             ELSE IF arg = "badge"
             THEN parse_args_from(f, a, i + 1, [o EXCEPT !.action = "Badge"], path)
             ELSE IF arg = "conformity"
             THEN parse_args_from(f, a, i + 1, [o EXCEPT !.action = "Conformity"], path)
             ELSE IF arg = "fix"
             THEN parse_args_from(f, a, i + 1, [o EXCEPT !.action = "Fix"], path)
             ELSE IF starts_with_dash(arg)
             THEN IF strip_prefix_format(arg).some
                  THEN IF strip_prefix_format(arg).v = "human"
                       THEN parse_args_from(f, a, i + 1, [o EXCEPT !.format = "Human"], path)
                       ELSE IF strip_prefix_format(arg).v = "json"
                       THEN parse_args_from(f, a, i + 1, [o EXCEPT !.format = "Json"], path)
                       ELSE ParseErr("Unknown format")
                  ELSE ParseErr("Unknown option")
             ELSE IF path.some THEN ParseErr("Multiple paths provided")
             ELSE parse_args_from(f, a, i + 1, o, Some(PathBuf_from(arg)))

\* parse_args: the arguments after the program's name.
parse_args(f, a) == parse_args_from(f, a, 2, DefaultOptions, None)

exit_code_compliance_first(rep) ==
    \* mutant: compliance is looked at before the warnings
    IF ~bronze_compliance(rep) THEN exit_codes.COMPLIANCE_FAILED
    ELSE IF has_critical_warnings(rep) THEN exit_codes.SECURITY_WARNING
    ELSE exit_codes.SUCCESS

\* main: "Exit with appropriate code".
exit_code_of(rep) ==
    IF has_critical_warnings(rep) THEN exit_codes.SECURITY_WARNING
    ELSE IF ~bronze_compliance(rep) THEN exit_codes.COMPLIANCE_FAILED
    ELSE exit_codes.SUCCESS

(***************************************************************************)
(* What is printed.  stdout is the sequence of the lines that carry a       *)
(* result; a line is its kind and the value it shows.                       *)
(***************************************************************************)
Line(kind, v) == [line |-> kind, v |-> v]

display_name(level) == level

badge_color(level) ==
    IF level = "Bronze" THEN "cd7f32"
    ELSE IF level = "Silver" THEN "c0c0c0"
    ELSE IF level = "Gold" THEN "ffd700"
    ELSE "e5e4e2"

\* generate_badge: the tier's name, twice, and its colour.
generate_badge(level) ==
    [alt |-> display_name(level), label |-> display_name(level), color |-> badge_color(level)]

\* generate_conformity_doc: the "RSR Level" line.
generate_conformity_doc(rep) ==
    IF highest_level(rep).some THEN display_name(highest_level(rep).v) ELSE "Not Met"

score_line(rep, pct) ==
    Line("score", [passed |-> passed_count(rep), total |-> total_count(rep),
                   percentage |-> pct])

compliance_line(rep) ==
    IF bronze_compliance(rep) /\ ~has_critical_warnings(rep) THEN Line("compliance", "ACHIEVED")
    ELSE IF bronze_compliance(rep) /\ has_critical_warnings(rep)
    THEN Line("compliance", "ACHIEVED (with warnings)")
    ELSE Line("compliance", "NOT MET")

body_lines(rep) ==
    <<Line("checks", rep.checks)>>
    \o (IF rep.warnings # <<>> THEN <<Line("warnings", rep.warnings)>> ELSE <<>>)

\* rhodibot's print_report.
print_report(rep) ==
    body_lines(rep) \o <<score_line(rep, percentage(rep))>>
    \o (IF has_critical_warnings(rep) THEN <<Line("critical", "review required")>> ELSE <<>>)
    \o <<compliance_line(rep)>>

print_json_report(rep) ==
    <<Line("json", [passed |-> passed_count(rep), total |-> total_count(rep),
                    percentage |-> percentage(rep),
                    bronze_compliant |-> bronze_compliance(rep),
                    has_critical_warnings |-> has_critical_warnings(rep),
                    checks |-> rep.checks, warnings |-> rep.warnings])>>

print_quiet_report(rep) ==
    IF bronze_compliance(rep) /\ ~has_critical_warnings(rep) THEN <<Line("quiet", "PASS")>>
    ELSE IF has_critical_warnings(rep) THEN <<Line("quiet", "FAIL (security)")>>
    ELSE <<Line("quiet", "FAIL")>>

\* print_verbose_report: print_report with the "Exit code:" lines.
print_verbose_report(rep) ==
    body_lines(rep) \o <<score_line(rep, percentage(rep))>>
    \o (IF has_critical_warnings(rep)
        THEN <<Line("critical", "review required"),
               Line("exit_code", exit_codes.SECURITY_WARNING)>>
        ELSE <<>>)
    \o <<compliance_line(rep)>>
    \o (IF bronze_compliance(rep) /\ ~has_critical_warnings(rep)
        THEN <<Line("exit_code", exit_codes.SUCCESS)>>
        ELSE IF bronze_compliance(rep) /\ has_critical_warnings(rep)
        THEN <<Line("exit_code", exit_codes.SECURITY_WARNING)>>
        ELSE <<Line("exit_code", exit_codes.COMPLIANCE_FAILED)>>)

\* aletheia's print_report: the score line divides without a test of the total.
aletheia_print_report(rep) ==
    body_lines(rep)
    \o <<score_line(rep, f64_percent(passed_count(rep), total_count(rep)))>>
    \o (IF has_critical_warnings(rep) THEN <<Line("critical", "review required")>> ELSE <<>>)
    \o <<compliance_line(rep)>>

\* main: report.highest_level().unwrap_or(ComplianceLevel::Bronze)
badge_level(rep) ==
    IF highest_level(rep).some THEN highest_level(rep).v ELSE "Bronze"

\* main after verify_repository: what rhodibot prints on stdout.
rhodibot_output(o, rep) ==
    IF o.action = "Badge" THEN <<Line("badge", generate_badge(badge_level(rep)))>>
    ELSE IF o.action = "Conformity" THEN <<Line("conformity", generate_conformity_doc(rep))>>
    ELSE IF o.action = "Fix" THEN <<>>
    ELSE IF o.format = "Json" THEN print_json_report(rep)
    ELSE IF o.format = "Sarif" THEN <<>>
    ELSE IF o.verbosity = "Quiet" THEN print_quiet_report(rep)
    ELSE IF o.verbosity = "Verbose" THEN print_verbose_report(rep)
    ELSE print_report(rep)

\* main after verify_repository: the status rhodibot ends with.
rhodibot_status(o, rep) ==
    IF o.action = "Badge" THEN exit_codes.SUCCESS
    ELSE IF o.action = "Conformity" THEN exit_codes.SUCCESS
    ELSE IF o.action = "Fix" THEN exit_codes.INVALID_ARGS
    ELSE IF o.format = "Sarif" THEN exit_codes.INVALID_ARGS
    ELSE exit_code_of(rep)

\* aletheia's main after verify_repository: exit(1), or the return from main.
aletheia_status(rep) ==
    IF ~bronze_compliance(rep) \/ has_critical_warnings(rep) THEN 1 ELSE 0

\* aletheia's main: the first argument, or the working directory.
aletheia_repo_path(f, a) == IF Len(a) > 1 THEN Ok(PathBuf_from(a[2])) ELSE current_dir(f)

(***************************************************************************)
(* The repositories the engines are run on.  A repository is a base (empty, *)
(* every candidate entry a plain file or directory, or every candidate      *)
(* entry a symbolic link to content inside the repository) in which at most *)
(* MaxVaried candidate entries are replaced by an entry of one other kind.  *)
(***************************************************************************)
FileNames ==
    {"README.md", "README.adoc", "LICENSE.txt", "SECURITY.md", "CONTRIBUTING.md",
     "CODE_OF_CONDUCT.md", "MAINTAINERS.md", "CHANGELOG.md", "justfile", "flake.nix",
     ".gitlab-ci.yml"}
DirNames == {".well-known", "src", "tests", "test"}
WkNames == {"security.txt", "ai.txt", "humans.txt"}

\* A slot is a candidate entry, named by its path below the repository.
WkSlots == {<<".well-known", n>> : n \in WkNames}
Slots == {<<n>> : n \in FileNames \cup DirNames} \cup WkSlots

\* Entries that exist whatever the repository holds: an outside directory
\* with content, and /lnk, a symbolic link to the repository.
StaticTree ==
    (RootDir :> Dir) @@ (Repo :> Dir) @@ (<<"/", "out">> :> Dir)
    @@ (<<"/", "out", "f">> :> File)
    @@ [p \in {<<"/", "out", n>> : n \in WkNames} |-> File]
    @@ (<<"/", "lnk">> :> Link(Repo))

\* Content of a non-empty repository that is no candidate entry: a file, a
\* directory holding the three well-known files, a directory that cannot be
\* searched, a link leading outside and a link to itself.
Fixtures ==
    (Repo \o <<"data.txt">> :> File) @@ (Repo \o <<"lib">> :> Dir)
    @@ (Repo \o <<"nosearch">> :> DirNoSearch)
    @@ [p \in {Repo \o <<"lib", n>> : n \in WkNames} |-> File]
    @@ (Repo \o <<"hop">> :> Link(<<"/", "out", "f">>))
    @@ (Repo \o <<"loop">> :> Link(<<"loop">>))

Targets ==
    {<<"data.txt">>, <<"lib">>, <<"/", "out", "f">>, <<"/", "out">>, <<"missing">>,
     <<"/", "out", "missing">>, <<"..", "out", "f">>, <<"..", "out", "missing">>,
     <<"..", "SECURITY.md">>, <<"hop">>, <<"loop">>, <<"/", "lnk", "data.txt">>,
     <<"..", "repo", "lib">>, <<"nosearch", "..", "..", "out", "f">>}

Kinds == {Absent, File, Dir, DirNoSearch, IoErr, BadLink} \cup {Link(t) : t \in Targets}

BaseEmpty == [s \in Slots |-> Absent]
BaseFull == [s \in Slots |-> IF Len(s) = 1 /\ s[1] \in DirNames THEN Dir ELSE File]
BaseLinked ==
    [s \in Slots |-> IF Len(s) = 2 THEN Absent
                     ELSE IF s[1] \in DirNames THEN Link(<<"lib">>)
                     ELSE Link(<<"data.txt">>)]
Bases == {BaseEmpty, BaseFull, BaseLinked}

\* The tree of a repository.  Writing an entry below .well-known creates
\* .well-known as a directory when it is missing (create_dir_all); no entry is
\* written below a .well-known that is something else.
MkFs(ent) ==
    LET written == {s \in Slots : ent[s].t # "absent"}
        made == IF ent[<<".well-known">>].t = "absent" /\ written \cap WkSlots # {}
                THEN {<<".well-known">>} ELSE {}
        present == {s \in written :
                       Len(s) = 2 => ent[<<".well-known">>].t \in {"dir", "absent"}}
        tree == [p \in {Repo \o s : s \in present \cup made} |->
                    IF SubSeq(p, Len(Repo) + 1, Len(p)) \in made THEN Dir
                    ELSE ent[SubSeq(p, Len(Repo) + 1, Len(p))]]
    IN  IF ent = BaseEmpty THEN tree @@ StaticTree
        ELSE tree @@ Fixtures @@ StaticTree

RECURSIVE VarSets(_)
VarSets(n) ==
    IF n = 0 THEN {{}}
    ELSE LET prev == VarSets(n - 1)
         IN  prev \cup {V \cup {s} : V \in prev, s \in Slots}

\* The forms in which the repository root is given: absolute, relative to the
\* working directory, and through a symbolic link.
RepoPaths == {<<"/", "repo">>, <<".">>, <<"/", "lnk">>}

\* The same three roots as words of a command line.
RepoArgs == {"/repo", ".", "/lnk"}

\* A run of an engine, from the call of verify_repository on: the command
\* line named the repository, and main found it to be a directory.
Init ==
    /\ \E b \in Bases, V \in VarSets(MaxVaried), k \in Kinds :
           fs = MkFs([s \in Slots |-> IF s \in V THEN k ELSE b[s]])
    /\ impl \in {"rhodibot", "aletheia"}
    /\ \E w \in RepoArgs :
           /\ args = <<impl, w>>
           /\ repo_path = PathBuf_from(w)
    /\ repo_path \in RepoPaths
    /\ options = DefaultOptions
    /\ exit_code = 0
    /\ stdout = <<>>
    /\ pc = "check_documentation"
    /\ report = new_report(repo_path)

\* The command lines the binaries are started with: up to MaxArgs words.
ArgWords ==
    {"--help", "-h", "-V", "--version", "-q", "-v", "-f", "json", "yaml", "--format=yaml", "--bogus", "badge",
     "conformity", "fix", "/repo", "/out/f", "/missing"}

RECURSIVE ArgLists(_)
ArgLists(n) ==
    IF n = 0 THEN {<<>>}
    ELSE LET prev == ArgLists(n - 1)
         IN  prev \cup {Append(l, w) : l \in {x \in prev : Len(x) = n - 1}, w \in ArgWords}

\* The repositories of the command-line runs: empty, complete, and complete
\* with a licence that is a link to a file outside.
BaseEscaping == [BaseFull EXCEPT ![<<"LICENSE.txt">>] = Link(<<"/", "out", "f">>)]
\* An empty repository but for a licence that is such a link.
BaseBroken == [BaseEmpty EXCEPT ![<<"LICENSE.txt">>] = Link(<<"/", "out", "f">>)]
CliBases == {BaseEmpty, BaseFull, BaseEscaping, BaseBroken}
\* The tree after the working directory, the repository, was removed.
CwdRemoved == [p \in DOMAIN StaticTree |-> IF p = Cwd THEN Unlinked ELSE StaticTree[p]]

\* A process at the start of main: nothing is parsed, no report exists.
CliInit ==
    /\ fs \in {MkFs(b) : b \in CliBases} \cup {CwdRemoved}
    /\ impl \in {"rhodibot", "aletheia"}
    /\ \E l \in ArgLists(MaxArgs) : args = <<impl>> \o l
    /\ repo_path = <<>>
    /\ options = DefaultOptions
    /\ exit_code = 0
    /\ stdout = <<>>
    /\ pc = "parse_args"
    /\ report = new_report(<<>>)

(***************************************************************************)
(* The steps of main before verify_repository.                             *)
(***************************************************************************)
\* parse_args and main's match on its result.
RhodibotParseArgs ==
    /\ impl = "rhodibot" /\ pc = "parse_args"
    /\ LET parsed == parse_args(fs, args)
       IN  IF parsed.kind = "exit"
           THEN /\ pc' = "exited" /\ exit_code' = exit_codes.SUCCESS
                /\ stdout' = <<Line(parsed.msg, "")>>
                /\ UNCHANGED <<options, repo_path>>
           ELSE IF parsed.kind = "err"
           THEN /\ pc' = "exited" /\ exit_code' = exit_codes.INVALID_ARGS
                /\ UNCHANGED <<options, repo_path, stdout>>
           ELSE /\ pc' = "validate_path"
                /\ options' = parsed.options
                /\ repo_path' = parsed.repo_path
                /\ UNCHANGED <<exit_code, stdout>>
    /\ UNCHANGED <<fs, impl, report, args>>

\* main: the path must exist and be a directory; then verify_repository
\* starts on a new report.
RhodibotValidatePath ==
    /\ impl = "rhodibot" /\ pc = "validate_path"
    /\ IF ~path_exists(fs, repo_path) \/ ~is_dir(fs, repo_path)
       THEN /\ pc' = "exited" /\ exit_code' = exit_codes.INVALID_PATH
            /\ UNCHANGED report
       ELSE /\ pc' = "check_documentation"
            /\ report' = new_report(repo_path)
            /\ UNCHANGED exit_code
    /\ UNCHANGED <<fs, impl, repo_path, args, options, stdout>>

AletheiaParseArgs ==
    /\ impl = "aletheia" /\ pc = "parse_args"
    /\ IF aletheia_repo_path(fs, args).err
       THEN /\ pc' = "exited" /\ exit_code' = 1
            /\ UNCHANGED repo_path
       ELSE /\ pc' = "validate_path"
            /\ repo_path' = aletheia_repo_path(fs, args).p
            /\ UNCHANGED exit_code
    /\ UNCHANGED <<fs, impl, report, args, options, stdout>>

AletheiaValidatePath ==
    /\ impl = "aletheia" /\ pc = "validate_path"
    /\ IF ~path_exists(fs, repo_path) \/ ~is_dir(fs, repo_path)
       THEN /\ pc' = "exited" /\ exit_code' = 1
            /\ UNCHANGED report
       ELSE /\ pc' = "check_documentation"
            /\ report' = new_report(repo_path)
            /\ UNCHANGED exit_code
    /\ UNCHANGED <<fs, impl, repo_path, args, options, stdout>>

(***************************************************************************)
(* The steps of verify_repository, one per category of checks.             *)
(***************************************************************************)
RhodibotCheckDocumentation ==
    /\ impl = "rhodibot" /\ pc = "check_documentation"
    /\ report' = check_documentation(Unchanged(fs), report, repo_path)
    /\ pc' = "check_well_known"
    /\ UNCHANGED <<fs, impl, repo_path, args, options, exit_code, stdout>>

RhodibotCheckWellKnown ==
    /\ impl = "rhodibot" /\ pc = "check_well_known"
    /\ report' = check_well_known(Unchanged(fs), report, repo_path)
    /\ pc' = "check_build_system"
    /\ UNCHANGED <<fs, impl, repo_path, args, options, exit_code, stdout>>

RhodibotCheckBuildSystem ==
    /\ impl = "rhodibot" /\ pc = "check_build_system"
    /\ report' = check_build_system(Unchanged(fs), report, repo_path)
    /\ pc' = "check_source_structure"
    /\ UNCHANGED <<fs, impl, repo_path, args, options, exit_code, stdout>>

RhodibotCheckSourceStructure ==
    /\ impl = "rhodibot" /\ pc = "check_source_structure"
    /\ report' = check_source_structure(Unchanged(fs), report, repo_path)
    /\ pc' = "done"
    /\ UNCHANGED <<fs, impl, repo_path, args, options, exit_code, stdout>>

AletheiaCheckDocumentation ==
    /\ impl = "aletheia" /\ pc = "check_documentation"
    /\ report' = aletheia_check_documentation(fs, report, repo_path)
    /\ pc' = "check_well_known"
    /\ UNCHANGED <<fs, impl, repo_path, args, options, exit_code, stdout>>

AletheiaCheckWellKnown ==
    /\ impl = "aletheia" /\ pc = "check_well_known"
    /\ report' = aletheia_check_well_known(fs, report, repo_path)
    /\ pc' = "check_build_system"
    /\ UNCHANGED <<fs, impl, repo_path, args, options, exit_code, stdout>>

AletheiaCheckBuildSystem ==
    /\ impl = "aletheia" /\ pc = "check_build_system"
    /\ report' = check_build_system(Unchanged(fs), report, repo_path)
    /\ pc' = "check_source_structure"
    /\ UNCHANGED <<fs, impl, repo_path, args, options, exit_code, stdout>>

AletheiaCheckSourceStructure ==
    /\ impl = "aletheia" /\ pc = "check_source_structure"
    /\ report' = check_source_structure(Unchanged(fs), report, repo_path)
    /\ pc' = "done"
    /\ UNCHANGED <<fs, impl, repo_path, args, options, exit_code, stdout>>

(***************************************************************************)
(* The end of main: the output is printed and the process exits.           *)
(***************************************************************************)
RhodibotExit ==
    /\ impl = "rhodibot" /\ pc = "done"
    /\ stdout' = rhodibot_output(options, report)
    /\ exit_code' = rhodibot_status(options, report)
    /\ pc' = "exited"
    /\ UNCHANGED <<fs, impl, repo_path, report, args, options>>

AletheiaExit ==
    /\ impl = "aletheia" /\ pc = "done"
    /\ stdout' = aletheia_print_report(report)
    /\ exit_code' = aletheia_status(report)
    /\ pc' = "exited"
    /\ UNCHANGED <<fs, impl, repo_path, report, args, options>>

Next ==
    \/ RhodibotCheckDocumentation
    \/ RhodibotCheckWellKnown
    \/ RhodibotCheckBuildSystem
    \/ RhodibotCheckSourceStructure
    \/ AletheiaCheckDocumentation
    \/ AletheiaCheckWellKnown
    \/ AletheiaCheckBuildSystem
    \/ AletheiaCheckSourceStructure
    \/ RhodibotExit
    \/ AletheiaExit

Spec == Init /\ [][Next]_vars

\* The whole of main, from the command line on.
CliNext ==
    \/ RhodibotParseArgs
    \/ RhodibotValidatePath
    \/ AletheiaParseArgs
    \/ AletheiaValidatePath
    \/ Next

CliSpec == CliInit /\ [][CliNext]_vars

(***************************************************************************)
(* ComplianceReport on its own: a report built by calls of add_check and   *)
(* add_warning with any outcome, tier and level, as its unit tests do.      *)
(***************************************************************************)
Levels == {"Bronze", "Silver", "Gold", "Platinum"}
WarningLevels == {"Info", "Warning", "Critical"}

ApiInit ==
    /\ fs = MkFs(BaseEmpty)
    /\ impl = "rhodibot"
    /\ args = <<impl>>
    /\ repo_path = Repo
    /\ options = DefaultOptions
    /\ exit_code = 0
    /\ stdout = <<>>
    /\ pc = "api"
    /\ report = new_report(repo_path)

ApiAddCheck ==
    /\ pc = "api" /\ Len(report.checks) < MaxChecks
    /\ \E passed \in BOOLEAN, level \in Levels :
           report' = add_check(report, "Test", "item", passed, level)
    /\ UNCHANGED <<fs, impl, repo_path, pc, args, options, exit_code, stdout>>

ApiAddWarning ==
    /\ pc = "api" /\ Len(report.warnings) < MaxWarnings
    /\ \E level \in WarningLevels :
           report' = add_warning(report, level, [text |-> "test"], None)
    /\ UNCHANGED <<fs, impl, repo_path, pc, args, options, exit_code, stdout>>

ApiNext == ApiAddCheck \/ ApiAddWarning

ReportSpec == ApiInit /\ [][ApiNext]_vars

(***************************************************************************)
(* rhodibot's engine beside another process that changes the repository.   *)
(* check_file and check_dir read a path twice: check_path_security reads   *)
(* its link-aware metadata, and later is_file or is_dir follows it.  One    *)
(* candidate entry of a group of checks is changed between the two reads:   *)
(* the checker sees the tree before the change, the type test the tree      *)
(* after it, and so does everything that runs later.                        *)
(***************************************************************************)
\* The entry at a place replaced by another one, or removed, with everything
\* below it.
Replaced(f, p, node) ==
    LET kept == {q \in DOMAIN f : ~IsPrefix(p, q)}
    IN  IF node.t = "absent" THEN [q \in kept |-> f[q]]
        ELSE [q \in kept \cup {p} |-> IF q = p THEN node ELSE f[q]]

\* What the other process makes of an entry: nothing, or a link to a file or
\* to a directory outside the repository.
Changes == {Absent, Link(<<"/", "out", "f">>), Link(<<"/", "out">>)}

\* The calls of a probe that follow its lstat: the change is made before one
\* of them.
CallsAfterLstat == {"read_link", "canonicalize", "type_test"}

\* The candidate entries of the four groups of checks.
DocumentationSlots ==
    {<<"README.md">>, <<"README.adoc">>}
    \cup {<<other_required_docs[i]>> : i \in 1..Len(other_required_docs)}
WellKnownSlots ==
    {<<".well-known">>}
    \cup {<<".well-known", required_files[i]>> : i \in 1..Len(required_files)}
BuildSlots == {<<build_files[i]>> : i \in 1..Len(build_files)}
SourceSlots == {<<"src">>, <<"tests">>, <<"test">>}

\* The place of a candidate entry: its name in the directory its path leads
\* to, when that directory is there.
SlotPlace(f, s) ==
    LET d == canonicalize(f, Repo \o SubSeq(s, 1, Len(s) - 1))
    IN  IF d.err THEN Err
        ELSE IF f[d.p].t # "dir" THEN Err
        ELSE Ok(Append(d.p, s[Len(s)]))

\* The trees a run beside the other process starts on.
RaceTrees == {MkFs(b) : b \in {BaseFull, BaseLinked, BaseEscaping}}

\* The runs of a group of checks beside the other process: one entry of the
\* group is not what it was from some call of its probe on.  The other
\* process makes its change in a tree that is still as a run starts on.
Races(slots) ==
    LET all == {[before |-> fs,
                 after |-> Replaced(fs, SlotPlace(fs, s).p, node),
                 path |-> join(repo_path, s),
                 at |-> a] :
                    s \in {x \in slots : ~SlotPlace(fs, x).err},
                    node \in Changes, a \in CallsAfterLstat}
    IN  IF fs \in RaceTrees THEN {t \in all : t.after # t.before} ELSE {}

RaceInit ==
    /\ fs \in RaceTrees
    /\ impl = "rhodibot"
    /\ \E w \in RepoArgs :
           /\ args = <<impl, w>>
           /\ repo_path = PathBuf_from(w)
    /\ options = DefaultOptions
    /\ exit_code = 0
    /\ stdout = <<>>
    /\ pc = "check_documentation"
    /\ report = new_report(repo_path)

RaceCheckDocumentation ==
    /\ impl = "rhodibot" /\ pc = "check_documentation"
    /\ \E t \in Races(DocumentationSlots) :
           /\ report' = check_documentation(t, report, repo_path)
           /\ fs' = t.after
    /\ pc' = "check_well_known"
    /\ UNCHANGED <<impl, repo_path, args, options, exit_code, stdout>>

RaceCheckWellKnown ==
    /\ impl = "rhodibot" /\ pc = "check_well_known"
    /\ \E t \in Races(WellKnownSlots) :
           /\ report' = check_well_known(t, report, repo_path)
           /\ fs' = t.after
    /\ pc' = "check_build_system"
    /\ UNCHANGED <<impl, repo_path, args, options, exit_code, stdout>>

RaceCheckBuildSystem ==
    /\ impl = "rhodibot" /\ pc = "check_build_system"
    /\ \E t \in Races(BuildSlots) :
           /\ report' = check_build_system(t, report, repo_path)
           /\ fs' = t.after
    /\ pc' = "check_source_structure"
    /\ UNCHANGED <<impl, repo_path, args, options, exit_code, stdout>>

RaceCheckSourceStructure ==
    /\ impl = "rhodibot" /\ pc = "check_source_structure"
    /\ \E t \in Races(SourceSlots) :
           /\ report' = check_source_structure(t, report, repo_path)
           /\ fs' = t.after
    /\ pc' = "done"
    /\ UNCHANGED <<impl, repo_path, args, options, exit_code, stdout>>

RaceNext ==
    \/ RhodibotCheckDocumentation
    \/ RaceCheckDocumentation
    \/ RhodibotCheckWellKnown
    \/ RaceCheckWellKnown
    \/ RhodibotCheckBuildSystem
    \/ RaceCheckBuildSystem
    \/ RhodibotCheckSourceStructure
    \/ RaceCheckSourceStructure
    \/ RhodibotExit

RaceSpec == RaceInit /\ [][RaceNext]_vars

(***************************************************************************)
(* What the claims speak of, stated on the filesystem itself.              *)
(***************************************************************************)
Done == pc = "done"

Exited == pc = "exited"

Probes == {report.probes[i] : i \in 1..Len(report.probes)}

\* The entry at the path is a symbolic link (what lstat reports).
IsSymlink(path) == symlink_metadata(fs, path).is_symlink

\* The canonical place a path leads to when every link is followed.
RealPath(path) == Resolve(fs, path, TRUE)

\* The type of the entry a path leads to, "none" when it leads nowhere.
ResolvedType(path) == IF RealPath(path).err THEN "none" ELSE fs[RealPath(path).p].t

\* A canonical place lies in the subtree of the repository.
Within(place) == IsPrefix(Repo, place)

\* The type a probe of the path asks for.
ExpectedType(path) == IF path[Len(path)] \in DirNames THEN "dir" ELSE "file"

WarningsFor(path, level) ==
    {i \in 1..Len(report.warnings) :
        report.warnings[i].path = Some(path) /\ report.warnings[i].level = level}

\* The path is a link, or it is one of the three files below a .well-known
\* that is a link.
ThroughLink(path) ==
    \/ IsSymlink(path)
    \/ /\ Len(path) = Len(repo_path) + 2
       /\ IsSymlink(SubSeq(path, 1, Len(path) - 1))

\* The check item a candidate path counts for.
ItemOf(path) ==
    LET name == path[Len(path)]
    IN  IF name = "README.adoc" THEN "README.md"
        ELSE IF name = ".well-known" THEN ".well-known/ directory"
        ELSE IF name = "src" THEN "src/ directory"
        ELSE IF name \in {"tests", "test"} THEN "tests/ directory"
        ELSE name

\* The recorded outcome of an item's check.
Passed(item) ==
    \E i \in 1..Len(report.checks) :
        report.checks[i].item = item /\ report.checks[i].passed

\* The recorded outcome of the check a probe belongs to is that of its probes.
RecordedFromProbes(pr) ==
    Passed(ItemOf(pr.path)) <=> \E q \in Probes : ItemOf(q.path) = ItemOf(pr.path) /\ q.ok

(***************************************************************************)
(* C1: in a finished rhodibot report, a probe that passed on an entry       *)
(* reached through a symbolic link (at the candidate path, or at            *)
(* .well-known for the files below it) whose real place is outside the      *)
(* repository comes with a Critical warning in the report.                  *)
(***************************************************************************)
C1_EscapingPassIsCritical ==
    (Done /\ impl = "rhodibot") =>
        \A pr \in Probes :
            (pr.ok /\ ThroughLink(pr.path) /\ ~Within(RealPath(pr.path).p))
                => has_critical_warnings(report)

C1_Witness ==
    /\ Done /\ impl = "rhodibot"
    /\ \E pr \in Probes :
          /\ pr.ok /\ ~IsSymlink(pr.path) /\ ThroughLink(pr.path)
          /\ ~Within(RealPath(pr.path).p)
    /\ has_critical_warnings(report)

(***************************************************************************)
(* C2: a finished report of either engine holds exactly 16 checks,          *)
(* whatever the repository holds.                                           *)
(***************************************************************************)
C2_SixteenChecks == Done => total_count(report) = 16

C2_Witness ==
    /\ Done /\ total_count(report) = 16
    /\ passed_count(report) < 16
    /\ report.warnings # <<>>
    /\ \E pr \in Probes : IsSymlink(pr.path) /\ ResolvedType(pr.path) = "none"

(***************************************************************************)
(* C3: in a finished report of either engine, every candidate path the      *)
(* engine checks that is a symbolic link has a warning in the report,       *)
(* Critical if the path-security checker finds it escaping, Info otherwise. *)
(* The paths checked in every run are the documentation files, .well-known, *)
(* the build files, src and tests, and the three well-known files whenever  *)
(* the .well-known check passed.                                            *)
(***************************************************************************)
AlwaysChecked ==
    {<<n>> : n \in (FileNames \ {"README.adoc"}) \cup {".well-known", "src", "tests"}}

WellKnownPassed ==
    \E i \in 1..Len(report.checks) :
        report.checks[i].item = ".well-known/ directory" /\ report.checks[i].passed

LinkIsWarned(path) ==
    LET security == check_path_security(Steady(fs), path, repo_path)
    IN  security.is_symlink =>
            IF security.escapes_repo THEN WarningsFor(path, "Critical") # {}
            ELSE WarningsFor(path, "Info") # {}

C3_EveryCheckedLinkIsWarned ==
    Done =>
        /\ \A s \in AlwaysChecked : LinkIsWarned(join(repo_path, s))
        /\ WellKnownPassed => \A s \in WkSlots : LinkIsWarned(join(repo_path, s))

\* The same statement of rhodibot's engine alone.
C3_RhodibotWarnsEveryCheckedLink == impl = "rhodibot" => C3_EveryCheckedLinkIsWarned

(***************************************************************************)
(* C4: for every probed path that is a symbolic link whose canonicalized    *)
(* target (the real place the link leads to) is outside the repository, the *)
(* finished report holds exactly one Critical warning and no Info warning   *)
(* for the path, and the probe passed exactly when the link leads to an     *)
(* entry of the expected type; the recorded check follows its probes.       *)
(***************************************************************************)
EscapingLink(path) ==
    IsSymlink(path) /\ ~RealPath(path).err /\ ~Within(RealPath(path).p)

C4_EscapingLinkFlaggedNotFailed ==
    Done =>
        \A pr \in Probes :
            EscapingLink(pr.path) =>
                /\ Cardinality(WarningsFor(pr.path, "Critical")) = 1
                /\ WarningsFor(pr.path, "Info") = {}
                /\ pr.ok <=> (ResolvedType(pr.path) = ExpectedType(pr.path))
                /\ RecordedFromProbes(pr)

C4_Witness ==
    /\ Done
    /\ \E pr \in Probes :
          /\ EscapingLink(pr.path) /\ pr.ok /\ Passed(ItemOf(pr.path))
          /\ Cardinality(WarningsFor(pr.path, "Critical")) = 1

(***************************************************************************)
(* C5: for every probed path that is a symbolic link whose canonicalized    *)
(* target lies within the repository, whatever the form of the root, the    *)
(* probe passed exactly when the link leads to an entry of the expected     *)
(* type, and the finished report holds exactly one Info warning and no      *)
(* Critical warning for the path.                                           *)
(***************************************************************************)
InsideLink(path) ==
    IsSymlink(path) /\ ~RealPath(path).err /\ Within(RealPath(path).p)

C5_InsideLinkCountsWithInfo ==
    Done =>
        \A pr \in Probes :
            InsideLink(pr.path) =>
                /\ pr.ok <=> (ResolvedType(pr.path) = ExpectedType(pr.path))
                /\ RecordedFromProbes(pr)
                /\ Cardinality(WarningsFor(pr.path, "Info")) = 1
                /\ WarningsFor(pr.path, "Critical") = {}

C5_Witness ==
    /\ Done /\ repo_path = <<"/", "lnk">>
    /\ \E pr \in Probes : InsideLink(pr.path) /\ pr.ok /\ Passed(ItemOf(pr.path))
    /\ ~has_critical_warnings(report)

(***************************************************************************)
(* C6: for every probed symbolic link whose target can be read, the         *)
(* path-security checker reports escapes_repo exactly when the place the    *)
(* link leads to, every link and every "." and ".." segment resolved, is    *)
(* not within the repository.                                               *)
(***************************************************************************)
\* The place a path names: links are followed and ".." steps taken where the
\* entries exist, and the remaining segments are applied as written.
locate_component(f, s) ==
    LET cur == s.cur
        c == Head(s.rest)
        tl == Tail(s.rest)
        child == Append(cur, c)
    IN  IF c = "." THEN Resolving(cur, tl, s.links)
        ELSE IF c = ".." THEN Resolving(CanonParent(cur), tl, s.links)
        ELSE IF child \in DOMAIN f /\ f[child].t = "link" /\ f[child].perm
                /\ s.links < MAXSYMLINKS
        THEN IF is_absolute(f[child].to)
             THEN Resolving(RootDir, Tail(f[child].to) \o tl, s.links + 1)
             ELSE Resolving(cur, f[child].to \o tl, s.links + 1)
        ELSE Resolving(child, tl, s.links)

RECURSIVE LocateSteps(_, _, _)
LocateSteps(f, s, n) ==
    IF Settled(s) THEN s
    ELSE IF n = 1 THEN locate_component(f, s)
    ELSE Then(LocateSteps(f, s, n \div 2), LAMBDA m : LocateSteps(f, m, n - n \div 2))

RECURSIVE LocateFrom(_, _, _)
LocateFrom(f, s, n) ==
    Then(LocateSteps(f, s, n),
         LAMBDA m : IF m.rest = <<>> THEN m.cur ELSE LocateFrom(f, m, 2 * n))

Locate(f, cur, rest, hops) == LocateFrom(f, Resolving(cur, rest, hops), 1)

TargetPlace(path) ==
    IF is_absolute(path) THEN Locate(fs, RootDir, Tail(path), 0)
    ELSE Locate(fs, Cwd, path, 0)

C6_EscapesIffTargetOutside ==
    \A pr \in Probes :
        (IsSymlink(pr.path) /\ ~read_link(fs, pr.path).err) =>
            (check_path_security(Steady(fs), pr.path, repo_path).escapes_repo
                <=> ~Within(TargetPlace(pr.path)))

(***************************************************************************)
(* C7: for every probed symbolic link whose target is indeterminate (the    *)
(* link cannot be read, or the target cannot be canonicalized, as for a     *)
(* dangling link), the path-security checker reports escapes_repo = FALSE   *)
(* and the report holds an Info warning and no Critical warning for it.     *)
(***************************************************************************)
Indeterminate(path) ==
    IsSymlink(path) /\ (read_link(fs, path).err \/ RealPath(path).err)

C7_IndeterminateIsNotFlagged ==
    \A pr \in Probes :
        Indeterminate(pr.path) =>
            /\ ~check_path_security(Steady(fs), pr.path, repo_path).escapes_repo
            /\ WarningsFor(pr.path, "Critical") = {}
            /\ WarningsFor(pr.path, "Info") # {}

(***************************************************************************)
(* C8: for every probed path whose link-aware metadata cannot be retrieved  *)
(* (the entry is absent or cannot be accessed), the path-security checker   *)
(* returns exists, is_symlink and escapes_repo false and no target, the     *)
(* probe fails, the report holds no warning for the path, and the check is  *)
(* recorded as failed unless an accepted alternative passed its own probe.  *)
(***************************************************************************)
SlotOf(path) == SubSeq(path, Len(repo_path) + 1, Len(path))

NoMetadata(path) == ~symlink_metadata(fs, path).ok

HasAlternative(path) == ItemOf(path) \in {"README.md", "tests/ directory"}

C8_NoMetadataFailsSilently ==
    Done =>
        \A pr \in Probes :
            NoMetadata(pr.path) =>
                /\ check_path_security(Steady(fs), pr.path, repo_path)
                       = PathCheckResult(FALSE, FALSE, FALSE, None)
                /\ ~pr.ok
                /\ \A i \in 1..Len(report.warnings) : report.warnings[i].path # Some(pr.path)
                /\ RecordedFromProbes(pr)
                /\ ~HasAlternative(pr.path) => ~Passed(ItemOf(pr.path))

C8_Witness ==
    /\ Done
    /\ \E pr \in Probes :
          /\ NoMetadata(pr.path) /\ ~pr.ok /\ ~Passed(ItemOf(pr.path))
          /\ Repo \o SlotOf(pr.path) \in DOMAIN fs
    /\ report.warnings = <<>>

(***************************************************************************)
(* C9: in a finished rhodibot report, every probe passed exactly when its   *)
(* path leads, links followed, to an entry of the expected type (a regular  *)
(* file for a file check, a directory for a directory check), and a check   *)
(* is recorded as passed exactly when one of its candidate paths does.      *)
(***************************************************************************)
LeadsToExpected(path) == ResolvedType(path) = ExpectedType(path)

C9_OutcomeIsResolvedType ==
    (Done /\ impl = "rhodibot") =>
        /\ \A pr \in Probes : pr.ok <=> LeadsToExpected(pr.path)
        /\ \A i \in 1..Len(report.checks) :
              report.checks[i].passed <=>
                  \E s \in Slots : /\ ItemOf(s) = report.checks[i].item
                                   /\ LeadsToExpected(join(repo_path, s))

C9_Witness ==
    /\ Done /\ impl = "rhodibot"
    /\ \E pr \in Probes :
          /\ check_path_security(Steady(fs), pr.path, repo_path).exists
          /\ IsSymlink(pr.path) /\ ResolvedType(pr.path) = "none"
          /\ ~pr.ok /\ ~Passed(ItemOf(pr.path))

(***************************************************************************)
(* C10: when every one of the 16 requirements has a candidate entry that is *)
(* a plain regular file or directory of the expected type, and no candidate *)
(* entry is a symbolic link, the finished report of either engine has 16    *)
(* checks, all passed, Bronze compliance and no warning.                    *)
(***************************************************************************)
Items == {ItemOf(s) : s \in Slots}

PlainEntry(path) ==
    symlink_metadata(fs, path).ok /\ ~IsSymlink(path) /\ LeadsToExpected(path)

AllPlain ==
    /\ \A item \in Items :
          \E s \in Slots : ItemOf(s) = item /\ PlainEntry(join(repo_path, s))
    /\ \A s \in Slots : ~IsSymlink(join(repo_path, s))

C10_PlainRepositoryPasses ==
    (Done /\ AllPlain) =>
        /\ passed_count(report) = 16
        /\ total_count(report) = 16
        /\ bronze_compliance(report)
        /\ report.warnings = <<>>

C10_Witness ==
    /\ Done /\ AllPlain /\ impl = "rhodibot"
    /\ passed_count(report) = 16
    /\ ~PlainEntry(join(repo_path, <<"README.md">>))

(***************************************************************************)
(* C11: when a requirement has no entry at all (for README and the tests    *)
(* directory: at none of the accepted names), the finished report of either *)
(* engine does not have Bronze compliance.                                  *)
(***************************************************************************)
CandidatesOf(item) == {join(repo_path, s) : s \in {t \in Slots : ItemOf(t) = item}}

MissingRequirement(item) == \A path \in CandidatesOf(item) : NoMetadata(path)

C11_MissingEntryDeniesBronze ==
    (Done /\ \E item \in Items : MissingRequirement(item)) => ~bronze_compliance(report)

C11_Witness ==
    /\ Done /\ ~bronze_compliance(report)
    /\ passed_count(report) = 15
    /\ \E item \in Items : MissingRequirement(item) /\ ~Passed(item)

(***************************************************************************)
(* C12: for a repository directory that holds nothing, the finished report  *)
(* of either engine has 16 checks, none passed, no Bronze compliance and no *)
(* warning.                                                                 *)
(***************************************************************************)
EmptyRepository == \A p \in DOMAIN fs : IsPrefix(Repo, p) => p = Repo

C12_EmptyRepositoryFailsAll ==
    (Done /\ EmptyRepository) =>
        /\ total_count(report) = 16
        /\ passed_count(report) = 0
        /\ ~bronze_compliance(report)
        /\ report.warnings = <<>>

C12_Witness ==
    /\ Done /\ EmptyRepository
    /\ passed_count(report) = 0 /\ total_count(report) = 16
    /\ repo_path = <<"/", "lnk">>

(***************************************************************************)
(* C13: the finished report of either engine holds exactly one check with   *)
(* item "README.md" and none with item "README.adoc", and that check passed *)
(* exactly when README.md or README.adoc leads to a regular file.           *)
(***************************************************************************)
ChecksOf(item) == {i \in 1..Len(report.checks) : report.checks[i].item = item}

C13_ReadmeAlternatives ==
    Done =>
        /\ Cardinality(ChecksOf("README.md")) = 1
        /\ ChecksOf("README.adoc") = {}
        /\ Passed("README.md") <=>
              \/ ResolvedType(join(repo_path, <<"README.md">>)) = "file"
              \/ ResolvedType(join(repo_path, <<"README.adoc">>)) = "file"

C13_Witness ==
    /\ Done /\ Passed("README.md")
    /\ ResolvedType(join(repo_path, <<"README.md">>)) # "file"
    /\ ResolvedType(join(repo_path, <<"README.adoc">>)) = "file"

(***************************************************************************)
(* C14: the finished report of either engine holds exactly one check with   *)
(* item "tests/ directory", and it passed exactly when tests or test leads  *)
(* to a directory.                                                          *)
(***************************************************************************)
C14_TestsAlternatives ==
    Done =>
        /\ Cardinality(ChecksOf("tests/ directory")) = 1
        /\ Passed("tests/ directory") <=>
              \/ ResolvedType(join(repo_path, <<"tests">>)) = "dir"
              \/ ResolvedType(join(repo_path, <<"test">>)) = "dir"

C14_Witness ==
    /\ Done /\ Passed("tests/ directory")
    /\ ResolvedType(join(repo_path, <<"tests">>)) # "dir"
    /\ ResolvedType(join(repo_path, <<"test">>)) = "dir"

(***************************************************************************)
(* C15: when the .well-known directory check failed, the finished report of *)
(* either engine holds one failed check for each of security.txt, ai.txt    *)
(* and humans.txt, and the engine has neither inspected nor tested any of   *)
(* the three paths: none is in the log of probes or of type tests, and no   *)
(* warning names one.                                                       *)
(***************************************************************************)
WkPaths == {join(repo_path, s) : s \in WkSlots}

C15_WellKnownFilesGated ==
    (Done /\ ~Passed(".well-known/ directory")) =>
        /\ \A n \in WkNames :
              /\ Cardinality(ChecksOf(n)) = 1
              /\ ~Passed(n)
        /\ \A pr \in Probes : pr.path \notin WkPaths
        /\ \A i \in 1..Len(report.stats) : report.stats[i] \notin WkPaths
        /\ \A i \in 1..Len(report.warnings) :
              \A path \in WkPaths : report.warnings[i].path # Some(path)

C15_Witness ==
    /\ Done /\ ~Passed(".well-known/ directory")
    /\ IsSymlink(join(repo_path, <<".well-known">>))
    /\ ResolvedType(join(repo_path, <<".well-known">>)) = "none"
    /\ \A n \in WkNames : ~Passed(n)
    /\ passed_count(report) = 12

(***************************************************************************)
(* C16: in every state of a run of either engine the (category, item)       *)
(* pairs of the report's checks are a prefix of one fixed sequence of 16,   *)
(* and the finished report holds the whole sequence: 7 Documentation, 4     *)
(* Well-Known, 3 Build System and 2 Source Structure entries, whatever the  *)
(* repository holds.                                                        *)
(***************************************************************************)
ExpectedOrder ==
    <<<<"Documentation", "README.md">>, <<"Documentation", "LICENSE.txt">>,
      <<"Documentation", "SECURITY.md">>, <<"Documentation", "CONTRIBUTING.md">>,
      <<"Documentation", "CODE_OF_CONDUCT.md">>, <<"Documentation", "MAINTAINERS.md">>,
      <<"Documentation", "CHANGELOG.md">>,
      <<"Well-Known", ".well-known/ directory">>, <<"Well-Known", "security.txt">>,
      <<"Well-Known", "ai.txt">>, <<"Well-Known", "humans.txt">>,
      <<"Build System", "justfile">>, <<"Build System", "flake.nix">>,
      <<"Build System", ".gitlab-ci.yml">>,
      <<"Source Structure", "src/ directory">>, <<"Source Structure", "tests/ directory">>>>

CheckOrder(rep) ==
    [i \in 1..Len(rep.checks) |-> <<rep.checks[i].category, rep.checks[i].item>>]

C16_FixedCheckOrder ==
    /\ IsPrefix(CheckOrder(report), ExpectedOrder)
    /\ Done => CheckOrder(report) = ExpectedOrder

C16_Witness ==
    /\ Done /\ CheckOrder(report) = ExpectedOrder
    /\ report.checks[2].passed /\ ~report.checks[3].passed
    /\ report.checks[8].passed /\ report.checks[16].passed

(***************************************************************************)
(* C17: an entry of the repository that is there but answers a probe with   *)
(* an error (its metadata cannot be read, the directory holding it cannot   *)
(* be searched, or it is a link that cannot be read) fails its own check;   *)
(* the run of either engine still ends with 16 checks, and they are, flag   *)
(* for flag, the checks of a run on the same tree without that entry.       *)
(***************************************************************************)
Erroring(s) ==
    /\ Repo \o s \in DOMAIN fs
    /\ \/ NoMetadata(join(repo_path, s))
       \/ IsSymlink(join(repo_path, s)) /\ read_link(fs, join(repo_path, s)).err

Without(f, p) == [q \in DOMAIN f \ {p} |-> f[q]]

ChecksOn(f) ==
    IF impl = "rhodibot" THEN verify_repository(f, repo_path).checks
    ELSE aletheia_verify_repository(f, repo_path).checks

C17_FaultIsolation ==
    Done =>
        /\ total_count(report) = 16
        /\ \A s \in Slots :
              Erroring(s) =>
                  /\ report.checks = ChecksOn(Without(fs, Repo \o s))
                  /\ \A pr \in Probes : pr.path = join(repo_path, s) => ~pr.ok
                  /\ ~HasAlternative(s) => ~Passed(ItemOf(s))

C17_Witness ==
    /\ Done /\ total_count(report) = 16
    /\ \E s \in Slots :
          /\ Erroring(s) /\ fs[Repo \o s].t = "ioerr"
          /\ ~Passed(ItemOf(s))
          /\ \E pr \in Probes : pr.path = join(repo_path, s)
    /\ passed_count(report) = 15

(***************************************************************************)
(* C18: when rhodibot has exited after a check run (the action is Check and *)
(* the report holds the checks of the run), its exit code is 2 exactly when *)
(* the report has a Critical warning, 1 exactly when it has none and Bronze *)
(* compliance is not met, 0 exactly when it has none and compliance is met; *)
(* no other code occurs.                                                    *)
(***************************************************************************)
CheckRunEnded ==
    /\ Exited /\ impl = "rhodibot"
    /\ options.action = "Check" /\ report.checks # <<>>

C18_ExitCodeByReport ==
    CheckRunEnded =>
        /\ exit_code \in {0, 1, 2}
        /\ exit_code = 0 <=> (bronze_compliance(report) /\ ~has_critical_warnings(report))
        /\ exit_code = 2 <=> has_critical_warnings(report)
        /\ exit_code = 1 <=> (~bronze_compliance(report) /\ ~has_critical_warnings(report))

C18_Witness ==
    /\ CheckRunEnded /\ exit_code = 2
    /\ ~bronze_compliance(report) /\ has_critical_warnings(report)

(***************************************************************************)
(* C19: when the path a binary has taken from its command line is not a     *)
(* directory (it does not exist, or leads to something else), the process   *)
(* never enters verify_repository and exits with code 3, for rhodibot and   *)
(* for aletheia.                                                            *)
(***************************************************************************)
PathTaken == repo_path # <<>>

NeverVerified == report = new_report(<<>>)

C19_InvalidPathExitsThree ==
    (PathTaken /\ ~is_dir(fs, repo_path)) =>
        /\ pc \in {"validate_path", "exited"}
        /\ NeverVerified
        /\ Exited => exit_code = 3

\* The same statement of rhodibot alone.
C19_RhodibotInvalidPathExitsThree == impl = "rhodibot" => C19_InvalidPathExitsThree

\* What aletheia does instead: it exits with the code of a compliance failure.
C19_AletheiaInvalidPathExitsOne ==
    (impl = "aletheia" /\ PathTaken /\ ~is_dir(fs, repo_path)) =>
        /\ pc \in {"validate_path", "exited"}
        /\ NeverVerified
        /\ Exited => exit_code = 1

(***************************************************************************)
(* C20, as stated: whenever rhodibot's argument list holds an unknown       *)
(* option, a --format flag without a value or with a value other than human *)
(* or json, or more than one positional path, rhodibot exits with code 4    *)
(* without entering verify_repository; every other list is accepted, and    *)
(* the path is the positional one, or the working directory.                *)
(***************************************************************************)
HelpFlags == {"-h", "--help", "-V", "--version"}
KnownFlags == {"-q", "--quiet", "-v", "--verbose"}
FormatFlags == {"-f", "--format"}
FormatValues == {"human", "json"}
Commands == {"check", "badge", "conformity", "fix"}

\* The words of a list that stand for a path: neither an option, nor a
\* command, nor the value of a format flag.
Positionals(l) ==
    {i \in 1..Len(l) :
        /\ l[i] \notin DashWords \cup Commands
        /\ ~(i > 1 /\ l[i - 1] \in FormatFlags)}

InvalidArgs(l) ==
    \/ \E i \in 1..Len(l) :
          l[i] \in DashWords \ (HelpFlags \cup KnownFlags \cup FormatFlags
                                  \cup {"--format=human", "--format=json"})
    \/ \E i \in 1..Len(l) :
          l[i] \in FormatFlags /\ (i = Len(l) \/ l[i + 1] \notin FormatValues)
    \/ Cardinality(Positionals(l)) > 1

RejectedArgs == Exited /\ exit_code = 4 /\ NeverVerified /\ ~PathTaken

\* parse_args returned options: the path is the positional word, or the
\* working directory.
AcceptedArgs(l) ==
    /\ PathTaken
    /\ repo_path = IF Positionals(l) # {}
                   THEN PathBuf_from(l[CHOOSE i \in Positionals(l) : TRUE])
                   ELSE IF current_dir(fs).err THEN <<".">> ELSE Cwd

HelpShown == Exited /\ exit_code = 0 /\ NeverVerified /\ ~PathTaken

C20_InvalidArgsExitFour ==
    (impl = "rhodibot" /\ pc # "parse_args") =>
        LET l == Tail(args)
        IN  /\ InvalidArgs(l) => RejectedArgs
            /\ ~InvalidArgs(l) => (AcceptedArgs(l) \/ HelpShown)

(***************************************************************************)
(* C20, amended: the arguments are read from left to right and a help or    *)
(* version flag ends the run with code 0 at once.  rhodibot exits with      *)
(* code 4 without entering verify_repository exactly when the arguments up  *)
(* to the first help or version flag (all of them when there is none) are   *)
(* invalid; when they are valid and a help or version flag follows, it      *)
(* exits with code 0 without verifying; otherwise the list is accepted with *)
(* the positional path, or the working directory.                           *)
(***************************************************************************)
\* The places of the help and version flags that are read as options.
HelpStops(l) ==
    {i \in 1..Len(l) : l[i] \in HelpFlags /\ ~(i > 1 /\ l[i - 1] \in FormatFlags)}

\* The arguments that are read: those before the first help or version flag.
ArgsRead(l) ==
    IF HelpStops(l) = {} THEN l
    ELSE SubSeq(l, 1, (CHOOSE i \in HelpStops(l) : \A j \in HelpStops(l) : i <= j) - 1)

C20_InvalidArgsBeforeHelpExitFour ==
    (impl = "rhodibot" /\ pc # "parse_args") =>
        LET l == Tail(args)
        IN  /\ InvalidArgs(ArgsRead(l)) <=> RejectedArgs
            /\ (~InvalidArgs(ArgsRead(l)) /\ HelpStops(l) # {}) => HelpShown
            /\ (~InvalidArgs(ArgsRead(l)) /\ HelpStops(l) = {}) => AcceptedArgs(l)

C20_Witness ==
    /\ impl = "rhodibot" /\ HelpShown
    /\ InvalidArgs(Tail(args)) /\ ~InvalidArgs(ArgsRead(Tail(args)))
    /\ Len(ArgsRead(Tail(args))) > 0

(***************************************************************************)
(* C21: in every state of a run of either program passed_count <=          *)
(* total_count, and every place that computes the percentage yields a       *)
(* number within [0, 100], which is 0 for a report without checks:          *)
(* ComplianceReport::percentage on the report as it is, and the score the   *)
(* renderers printed (rhodibot's human, verbose and JSON reports,           *)
(* aletheia's print_report), which is the percentage of the report.         *)
(***************************************************************************)
WithinPercent(x) ==
    /\ x.kind = "finite" /\ x.den > 0
    /\ 0 <= x.num /\ x.num <= 100 * x.den

\* The percentage a printed report shows.
ScoreShown(lines) ==
    LET i == CHOOSE j \in 1..Len(lines) : lines[j].line \in {"score", "json"}
    IN  lines[i].v.percentage

PercentageIsSound(x) ==
    WithinPercent(x) /\ (total_count(report) = 0 => x.num = 0)

\* The lines of the output that show a score.
ScoreLines == {i \in 1..Len(stdout) : stdout[i].line \in {"score", "json"}}

C21_PercentageWithinBounds ==
    /\ passed_count(report) <= total_count(report)
    /\ PercentageIsSound(percentage(report))
    /\ \A i \in ScoreLines :
          /\ PercentageIsSound(stdout[i].v.percentage)
          /\ stdout[i].v.percentage = percentage(report)
          /\ stdout[i].v.passed = passed_count(report)
          /\ stdout[i].v.total = total_count(report)

\* aletheia printed the score of a report of which some checks passed and
\* some failed.
C21_Witness ==
    /\ Exited /\ impl = "aletheia"
    /\ \E i \in ScoreLines :
          /\ 0 < stdout[i].v.passed /\ stdout[i].v.passed < stdout[i].v.total
          /\ 0 < stdout[i].v.percentage.num
          /\ stdout[i].v.percentage.num < 100 * stdout[i].v.percentage.den

\* The same on every report ComplianceReport's methods can build, for the
\* library's percentage and the renderers that use it.
C21_RhodibotPercentageWithinBounds ==
    /\ passed_count(report) <= total_count(report)
    /\ PercentageIsSound(percentage(report))
    /\ PercentageIsSound(ScoreShown(print_report(report)))
    /\ PercentageIsSound(ScoreShown(print_verbose_report(report)))
    /\ PercentageIsSound(ScoreShown(print_json_report(report)))

(***************************************************************************)
(* C22: bronze_compliance is true exactly when no check tagged Bronze has   *)
(* failed, whatever the order of the checks and whatever the checks of the  *)
(* other tiers are: true for a report without checks, and, when every check *)
(* is tagged Bronze, true exactly when passed_count = total_count.          *)
(***************************************************************************)
BronzeChecks(rep) == {i \in 1..Len(rep.checks) : rep.checks[i].required_for = "Bronze"}

FailedChecks(rep) == {i \in 1..Len(rep.checks) : ~rep.checks[i].passed}

C22_BronzeIffAllBronzePassed ==
    /\ bronze_compliance(report) <=> (BronzeChecks(report) \cap FailedChecks(report) = {})
    /\ report.checks = <<>> => bronze_compliance(report)
    /\ BronzeChecks(report) = 1..Len(report.checks) =>
          (bronze_compliance(report) <=> passed_count(report) = total_count(report))

C22_Witness ==
    /\ pc = "api" /\ bronze_compliance(report)
    /\ BronzeChecks(report) # {}
    /\ FailedChecks(report) # {}
    /\ passed_count(report) < total_count(report)


(***************************************************************************)
(* C23: for every probed symbolic link whose target can be read, the target *)
(* the path-security checker returns is the raw target itself when it is    *)
(* absolute and the raw target appended to the parent directory of the link *)
(* when it is relative, and the link is classified by the place that path   *)
(* names: within bounds when it is inside the repository (as for            *)
(* .well-known/security.txt -> ../SECURITY.md), escaping when it is outside *)
(* (as for README.md -> ../x).                                              *)
(***************************************************************************)
\* The raw target of a link read from the directory that holds the link.
FromParentOf(path, raw) ==
    IF raw[1] = "/" THEN raw ELSE SubSeq(path, 1, Len(path) - 1) \o raw

\* The place a path names, links followed where the entries exist.
PlaceOf(p) ==
    IF p[1] = "/" THEN Locate(fs, RootDir, Tail(p), 0) ELSE Locate(fs, Cwd, p, 0)

ReadableLink(path) == IsSymlink(path) /\ ~read_link(fs, path).err

ReturnsParentRelativeTarget(path) ==
    check_path_security(Steady(fs), path, repo_path).target
        = Some(FromParentOf(path, read_link(fs, path).p))

C23_ResolvedFromParentAndClassified ==
    \A pr \in Probes :
        ReadableLink(pr.path) =>
            /\ ReturnsParentRelativeTarget(pr.path)
            /\ check_path_security(Steady(fs), pr.path, repo_path).escapes_repo
                   <=> ~Within(PlaceOf(FromParentOf(pr.path, read_link(fs, pr.path).p)))

\* What does hold: the returned target is the parent-relative path, and the
\* classification is that of its place whenever the place exists.
C23_ResolvedFromParentWhenTargetExists ==
    \A pr \in Probes :
        ReadableLink(pr.path) =>
            /\ ReturnsParentRelativeTarget(pr.path)
            /\ ~RealPath(pr.path).err =>
                  (check_path_security(Steady(fs), pr.path, repo_path).escapes_repo
                      <=> ~Within(PlaceOf(FromParentOf(pr.path, read_link(fs, pr.path).p))))

\* The two links of the statement, the second one dangling.
C23_WellKnownLinkWithinBounds ==
    /\ Done /\ impl = "rhodibot"
    /\ \E pr \in Probes :
          /\ SlotOf(pr.path) = <<".well-known", "security.txt">>
          /\ ReadableLink(pr.path)
          /\ read_link(fs, pr.path).p = <<"..", "SECURITY.md">>
          /\ WarningsFor(pr.path, "Info") # {} /\ pr.ok

C23_DanglingParentLinkWithinBounds ==
    /\ Done /\ impl = "rhodibot"
    /\ \E pr \in Probes :
          /\ SlotOf(pr.path) = <<"README.md">>
          /\ ReadableLink(pr.path)
          /\ read_link(fs, pr.path).p = <<"..", "out", "missing">>
          /\ WarningsFor(pr.path, "Info") # {}

(***************************************************************************)
(* C24: for a finished report of rhodibot's verify_repository,              *)
(* highest_level is None exactly when Bronze compliance is not met or a     *)
(* Critical warning exists, and is Bronze otherwise: every check of such a  *)
(* report is Bronze-tier, so Bronze is the highest tier it achieved.        *)
(***************************************************************************)
NoTier(rep) == ~bronze_compliance(rep) \/ has_critical_warnings(rep)

TierName(level) == IF level.some THEN level.v ELSE "none"

TiersChecked(rep) == {rep.checks[i].required_for : i \in 1..Len(rep.checks)}

C24_HighestLevelIsAchievedTier ==
    (Done /\ impl = "rhodibot") =>
        /\ TiersChecked(report) = {"Bronze"}
        /\ TierName(highest_level(report)) = IF NoTier(report) THEN "none" ELSE "Bronze"

\* What does hold: None exactly in the two cases, and Silver in every other.
C24_NoneIffNotBronzeOrCritical ==
    (Done /\ impl = "rhodibot") =>
        /\ TierName(highest_level(report)) = IF NoTier(report) THEN "none" ELSE "Silver"

\* A compliant repository whose report, holding Bronze checks only, is Silver.
C24_CompliantReportIsSilver ==
    /\ Done /\ impl = "rhodibot"
    /\ TiersChecked(report) = {"Bronze"}
    /\ passed_count(report) = 16 /\ ~has_critical_warnings(report)
    /\ TierName(highest_level(report)) = "Silver"
    /\ generate_conformity_doc(report) = "Silver"

(***************************************************************************)
(* C25: whenever rhodibot has printed a badge, the verified repository      *)
(* achieved a tier (Bronze compliance is met and the report has no Critical *)
(* warning) and the badge names the tier highest_level reports for it.      *)
(***************************************************************************)
Badges == {stdout[i].v : i \in {j \in 1..Len(stdout) : stdout[j].line = "badge"}}

C25_BadgeOnlyForAchievedTier ==
    impl = "rhodibot" =>
        \A b \in Badges :
            /\ ~NoTier(report)
            /\ b.label = TierName(highest_level(report))

\* The badges that are issued without a tier: for a repository that fails
\* every check, and for one whose report has a Critical warning.
C25_BadgeForFailedRepository ==
    /\ Exited /\ impl = "rhodibot" /\ exit_code = exit_codes.SUCCESS
    /\ passed_count(report) = 0 /\ total_count(report) = 16
    /\ \E b \in Badges : b.label = "Bronze"

C25_BadgeDespiteCriticalWarning ==
    /\ Exited /\ impl = "rhodibot" /\ exit_code = exit_codes.SUCCESS
    /\ has_critical_warnings(report)
    /\ \E b \in Badges : b.label = "Bronze"

\* What does hold: a badge is printed by the badge action alone, once, and
\* names Bronze when no tier is achieved and the achieved tier otherwise.
C25_BadgeNamesTierOrBronze ==
    impl = "rhodibot" =>
        /\ Badges # {} => (Exited /\ options.action = "Badge" /\ Len(stdout) = 1)
        /\ \A b \in Badges :
              b.label = IF NoTier(report) THEN "Bronze" ELSE TierName(highest_level(report))

(***************************************************************************)
(* C27: a rhodibot run that ended with the verbose report announced one     *)
(* exit code in it, on one line, and ended with that code, whatever the     *)
(* compliance and the warnings of the report.                               *)
(***************************************************************************)
VerboseRun ==
    /\ Exited /\ impl = "rhodibot" /\ PathTaken /\ ~NeverVerified
    /\ options.action = "Check" /\ options.format = "Human"
    /\ options.verbosity = "Verbose"

Announced == {i \in 1..Len(stdout) : stdout[i].line = "exit_code"}

C27_VerboseAnnouncesTheExitCode ==
    VerboseRun =>
        /\ Cardinality(Announced) = 1
        /\ \A i \in Announced : stdout[i].v = exit_code

\* The runs that announce a code they do not end with, or a code twice.
C27_AnnouncesTwoCodes ==
    /\ VerboseRun
    /\ ~bronze_compliance(report) /\ has_critical_warnings(report)
    /\ {stdout[i].v : i \in Announced}
          = {exit_codes.SECURITY_WARNING, exit_codes.COMPLIANCE_FAILED}
    /\ exit_code = exit_codes.SECURITY_WARNING

C27_AnnouncesOneCodeTwice ==
    /\ VerboseRun
    /\ bronze_compliance(report) /\ has_critical_warnings(report)
    /\ Cardinality(Announced) = 2
    /\ \A i \in Announced : stdout[i].v = exit_code

\* What does hold: without a Critical warning one code is announced and it is
\* the exit code; with one, two lines are, and the first is the exit code.
C27_VerboseWithoutCriticalAnnouncesOnce ==
    VerboseRun =>
        IF has_critical_warnings(report)
        THEN /\ Cardinality(Announced) = 2
             /\ \E i \in Announced :
                   /\ stdout[i].v = exit_code
                   /\ \A j \in Announced : i <= j
        ELSE /\ Cardinality(Announced) = 1
             /\ \A i \in Announced : stdout[i].v = exit_code

(***************************************************************************)
(* C26: in a finished rhodibot report, README.adoc was probed exactly when  *)
(* the probe of README.md was negative, and test exactly when the probe of  *)
(* tests was negative, each right after the entry it stands in for.  An     *)
(* alternative that was not probed has no warning, symbolic link or not,    *)
(* and a symbolic link at README.md or tests whose probe was negative has   *)
(* its warning ahead of every warning for the alternative.                  *)
(***************************************************************************)
Alternatives == {<<"README.md", "README.adoc">>, <<"tests", "test">>}

ProbesOf(name) ==
    {i \in 1..Len(report.probes) : report.probes[i].path = join(repo_path, <<name>>)}

WarningsOf(name) ==
    {i \in 1..Len(report.warnings) : report.warnings[i].path = Some(join(repo_path, <<name>>))}

ShortCircuit(first, alt) ==
    /\ Cardinality(ProbesOf(first)) = 1
    /\ \A i \in ProbesOf(first) :
          IF report.probes[i].ok
          THEN ProbesOf(alt) = {} /\ WarningsOf(alt) = {}
          ELSE /\ ProbesOf(alt) = {i + 1}
               /\ IsSymlink(join(repo_path, <<first>>)) =>
                     /\ WarningsOf(first) # {}
                     /\ \A w \in WarningsOf(first), v \in WarningsOf(alt) : w < v

C26_AlternativesShortCircuit ==
    (Done /\ impl = "rhodibot") => \A a \in Alternatives : ShortCircuit(a[1], a[2])

C26_Witness ==
    /\ Done /\ impl = "rhodibot"
    /\ IsSymlink(join(repo_path, <<"README.adoc">>))
    /\ ProbesOf("README.adoc") = {} /\ WarningsOf("README.adoc") = {}
    /\ IsSymlink(join(repo_path, <<"tests">>)) /\ IsSymlink(join(repo_path, <<"test">>))
    /\ \A i \in ProbesOf("tests") : ~report.probes[i].ok
    /\ \E w \in WarningsOf("tests"), v \in WarningsOf("test") : w < v

(***************************************************************************)
(* C28: in a finished rhodibot report the warnings are, in order, one for   *)
(* each probed path that is a symbolic link and none for any other probed   *)
(* path; each carries the path it is about and has level Info or Critical.  *)
(* At most 18 paths are probed, none of them twice.                         *)
(***************************************************************************)
ProbedLinks ==
    LET is_link(pr) == IsSymlink(pr.path)
    IN  SelectSeq(report.probes, is_link)

C28_OneWarningPerProbedLink ==
    (Done /\ impl = "rhodibot") =>
        /\ Len(report.warnings) = Len(ProbedLinks)
        /\ \A i \in 1..Len(report.warnings) :
              /\ report.warnings[i].path = Some(ProbedLinks[i].path)
              /\ report.warnings[i].level \in {"Info", "Critical"}
        /\ Len(report.probes) <= 18
        /\ \A i, j \in 1..Len(report.probes) :
              i # j => report.probes[i].path # report.probes[j].path

C28_Witness ==
    /\ Done /\ impl = "rhodibot"
    /\ Len(report.probes) = 17
    /\ WarningsFor(join(repo_path, <<"README.md">>), "Critical") # {}
    /\ WarningsFor(join(repo_path, <<"README.adoc">>), "Info") # {}
    /\ \E pr \in Probes : ~IsSymlink(pr.path) /\ pr.ok
    /\ Len(report.warnings) = Len(ProbedLinks)

(***************************************************************************)
(* C29: when another process removes a candidate entry between the read of  *)
(* its link-aware metadata and the type test that follows the path, the     *)
(* probe of that path is negative and its check is recorded as failed       *)
(* (unless an accepted alternative passed its own probe); the engine goes   *)
(* on to the next group with no exit and no error, and the finished report  *)
(* holds the 16 checks in their fixed order.                                *)
(***************************************************************************)
\* The path of the slot leads to an entry before the step and to none after it.
RemovedInStep(s) ==
    /\ symlink_metadata(fs, join(repo_path, s)).ok
    /\ ~symlink_metadata(fs', join(repo_path, s)).ok

RemovedEntryFailsItsCheck ==
    \A s \in Slots :
        RemovedInStep(s) =>
            /\ \A i \in 1..Len(report'.probes) :
                  report'.probes[i].path = join(repo_path, s) => ~report'.probes[i].ok
            /\ ~HasAlternative(s) =>
                  \A i \in 1..Len(report'.checks) :
                      report'.checks[i].item = ItemOf(s) => ~report'.checks[i].passed
            /\ pc' \in {"check_well_known", "check_build_system",
                        "check_source_structure", "done"}
            /\ exit_code' = exit_code /\ stdout' = stdout
            /\ Len(report'.checks) > Len(report.checks)

C29_RemovedBeforeTypeTestFails ==
    /\ [][RemovedEntryFailsItsCheck]_vars
    /\ [](Done => (total_count(report) = 16 /\ CheckOrder(report) = ExpectedOrder))

\* A finished run in which the licence, a symbolic link when its metadata
\* was read (the report warns of it), was gone at the type test.
C29_Witness ==
    /\ Done /\ total_count(report) = 16 /\ CheckOrder(report) = ExpectedOrder
    /\ Repo \o <<"LICENSE.txt">> \notin DOMAIN fs
    /\ WarningsOf("LICENSE.txt") # {}
    /\ \A i \in ProbesOf("LICENSE.txt") : ~report.probes[i].ok
    /\ ~Passed("LICENSE.txt")
    /\ Passed("SECURITY.md")

(***************************************************************************)
(* C30: even beside a process that replaces entries between the two reads,  *)
(* a probe that passed on a path whose entry is a symbolic link leading     *)
(* outside the repository has a Critical warning for that path in the       *)
(* report: the entry the type test followed is the entry that was           *)
(* classified.                                                              *)
(***************************************************************************)
C30_NoUnflaggedEscapingPass ==
    impl = "rhodibot" =>
        \A pr \in Probes :
            (pr.ok /\ EscapingLink(pr.path)) => WarningsFor(pr.path, "Critical") # {}

\* A finished run that passed every check, one of them through a link to a
\* file outside the repository, with no warning at all.
C30_PassedThroughUnclassifiedLink ==
    /\ Done /\ impl = "rhodibot"
    /\ passed_count(report) = 16 /\ report.warnings = <<>>
    /\ \E pr \in Probes : pr.ok /\ EscapingLink(pr.path)

=============================================================================
